---- MODULE Spec2Model ----
(***************************************************************************)
(* A model of epx: the EPUB reader/writer (src/epub), the editing          *)
(* operations (src/manipulate) and the extract/assemble pipelines.         *)
(*                                                                         *)
(* Strings are sequences of tokens.  A token is a character that the code  *)
(* inspects ("&", "<", "/", " ", ...) or an opaque run of characters that  *)
(* it never looks inside ("ch1", ".xhtml", "amp;").  Prefix, suffix,       *)
(* substring and concatenation are those of the token sequences.           *)
(***************************************************************************)
EXTENDS Integers, Sequences, FiniteSets, TLC

(***************************************************************************)
(* String primitives (Rust str methods used by the code)                   *)
(***************************************************************************)
StartsWith(s, p) == Len(p) <= Len(s) /\ SubSeq(s, 1, Len(p)) = p

EndsWith(s, p) == Len(p) <= Len(s) /\ SubSeq(s, Len(s) - Len(p) + 1, Len(s)) = p

Contains(s, p) == \E i \in 0..(Len(s) - Len(p)) : SubSeq(s, i + 1, i + Len(p)) = p

\* index of the last occurrence of token t in s, 0 when absent (str::rfind)
RFind(s, t) ==
    IF \E i \in 1..Len(s) : s[i] = t
    THEN CHOOSE i \in 1..Len(s) : s[i] = t /\ \A j \in (i + 1)..Len(s) : s[j] # t
    ELSE 0

IsSpace(t) == t = " "

RECURSIVE TrimStart(_)
TrimStart(s) == IF s # <<>> /\ IsSpace(Head(s)) THEN TrimStart(Tail(s)) ELSE s

RECURSIVE TrimEnd(_)
TrimEnd(s) ==
    IF s # <<>> /\ IsSpace(s[Len(s)]) THEN TrimEnd(SubSeq(s, 1, Len(s) - 1)) ELSE s

\* str::trim
Trim(s) == TrimEnd(TrimStart(s))

\* Option<T>: <<>> is None, <<v>> is Some(v)
None == <<>>
Some(v) == <<v>>
IsSome(o) == o # <<>>

Range(s) == {s[i] : i \in 1..Len(s)}

RECURSIVE SeqFilterOut(_, _)
\* Vec::retain(|x| x \notin Drop)
SeqFilterOut(s, Drop) ==
    IF s = <<>> THEN <<>>
    ELSE IF Head(s) \in Drop THEN SeqFilterOut(Tail(s), Drop)
         ELSE <<Head(s)>> \o SeqFilterOut(Tail(s), Drop)

\* Vec::remove(i), i counted from 1
RemoveAt(s, i) == SubSeq(s, 1, i - 1) \o SubSeq(s, i + 1, Len(s))

\* Vec::insert(i, x): x ends at position i (counted from 1)
InsertAt(s, i, x) == SubSeq(s, 1, i - 1) \o <<x>> \o SubSeq(s, i, Len(s))

(***************************************************************************)
(* XML text escaping (writer.rs xml_escape) and unescaping (quick-xml      *)
(* BytesText::unescape as parse_opf calls it)                              *)
(***************************************************************************)
RECURSIVE xml_escape(_)
xml_escape(s) ==
    IF s = <<>> THEN <<>>
    ELSE LET c == Head(s)
             r == xml_escape(Tail(s))
         IN  CASE c = "&"  -> <<"&", "amp;">> \o r
               [] c = "<"  -> <<"&", "lt;">> \o r
               [] c = ">"  -> <<"&", "gt;">> \o r
               [] c = "\"" -> <<"&", "quot;">> \o r
               [] OTHER    -> <<c>> \o r

EntityNames == {"amp;", "lt;", "gt;", "quot;", "apos;"}

EntityChar(t) ==
    CASE t = "amp;"  -> "&"
      [] t = "lt;"   -> "<"
      [] t = "gt;"   -> ">"
      [] t = "quot;" -> "\""
      [] t = "apos;" -> "'"

\* an "&" that does not start a known entity makes unescape return Err
UnescapeFails(s) ==
    \E i \in 1..Len(s) : s[i] = "&" /\ (i = Len(s) \/ s[i + 1] \notin EntityNames)

RECURSIVE UnescapeGo(_)
UnescapeGo(s) ==
    IF s = <<>> THEN <<>>
    ELSE IF Head(s) = "&"
         THEN <<EntityChar(s[2])>> \o UnescapeGo(SubSeq(s, 3, Len(s)))
         ELSE <<Head(s)>> \o UnescapeGo(Tail(s))

\* e.unescape().unwrap_or_default()
unescape_or_default(s) == IF UnescapeFails(s) THEN <<>> ELSE UnescapeGo(s)

(***************************************************************************)
(* Well-known names and media types                                        *)
(***************************************************************************)
MIMETYPE == <<"application/epub+zip">>
MIMETYPE_NAME == <<"mimetype">>
META_INF == <<"META-INF", "/">>
CONTAINER_PATH == <<"META-INF", "/", "container", ".xml">>
OEBPS == <<"OEBPS", "/">>
OPF_EXT == <<".opf">>
TOC_XHTML == <<"toc", ".xhtml">>
TOC_NCX == <<"toc", ".ncx">>
XHTML_MT == <<"application/x", "html", "+", "xml">>
NCX_MT == <<"application/x-dtbncx", "+", "xml">>
CSS_MT == <<"text/css">>
PNG_MT == <<"image/", "png">>
OCTET_MT == <<"application/octet-stream">>
NAV_PROP == <<"nav">>
DCTERMS_MODIFIED == <<"dcterms:modified">>

(***************************************************************************)
(* HashMap<String, T> as a function on a set of strings                    *)
(***************************************************************************)
EmptyMap == [k \in {} |-> <<>>]
MapInsert(m, k, v) == [x \in (DOMAIN m) \cup {k} |-> IF x = k THEN v ELSE m[x]]
MapRemove(m, k) == [x \in (DOMAIN m) \ {k} |-> m[x]]

(***************************************************************************)
(* Byte order of strings (Vec<&String>::sort in generate_opf)              *)
(***************************************************************************)
TokenOrder ==
    <<" ", "\"", "&", "'", "/", "<", ">", "a", "amp;", "b", "dcterms:modified",
      "gt;", "k", "lt;", "quot;", "rendition:layout", "v">>

TokenRank(t) ==
    IF \E i \in 1..Len(TokenOrder) : TokenOrder[i] = t
    THEN CHOOSE i \in 1..Len(TokenOrder) : TokenOrder[i] = t
    ELSE 0

RECURSIVE StrLeq(_, _)
StrLeq(a, b) ==
    IF a = <<>> THEN TRUE
    ELSE IF b = <<>> THEN FALSE
    ELSE IF Head(a) = Head(b) THEN StrLeq(Tail(a), Tail(b))
    ELSE TokenRank(Head(a)) < TokenRank(Head(b))

RECURSIVE SortedKeys(_)
SortedKeys(S) ==
    IF S = {} THEN <<>>
    ELSE LET m == CHOOSE k \in S : \A j \in S : StrLeq(k, j)
         IN  <<m>> \o SortedKeys(S \ {m})

(***************************************************************************)
(* The Book model (src/epub/mod.rs)                                        *)
(***************************************************************************)
EmptyMetadata ==
    [identifiers |-> <<>>, titles |-> <<>>, languages |-> <<>>, creators |-> <<>>,
     publishers |-> <<>>, dates |-> <<>>, description |-> None, subjects |-> <<>>,
     rights |-> None, modified |-> None, cover_id |-> None, custom |-> EmptyMap]

ManifestItem(id, href, mt, props) ==
    [id |-> id, href |-> href, media_type |-> mt, properties |-> props]

SpineItem(idref, linear, props) == [idref |-> idref, linear |-> linear, properties |-> props]

NavPoint(label, href, children) == [label |-> label, href |-> href, children |-> children]

Navigation(toc, version) == [toc |-> toc, epub_version |-> version]

EpubBook(md, mf, sp, nav, res) ==
    [metadata |-> md, manifest |-> mf, spine |-> sp, navigation |-> nav, resources |-> res]

\* EpubBook::detect_opf_dir: the directory of a resource ending in ".opf" (any
\* of them: HashMap iteration order), else a well-known prefix, else "".
OpfDirCandidates(res) ==
    LET opfs == {k \in DOMAIN res : EndsWith(k, OPF_EXT)}
        HasPrefix(p) == \E k \in DOMAIN res : StartsWith(k, p)
    IN  IF opfs # {}
        THEN {SubSeq(k, 1, RFind(k, "/")) : k \in opfs}
        ELSE IF HasPrefix(OEBPS) THEN {OEBPS}
        ELSE IF HasPrefix(<<"OPS", "/">>) THEN {<<"OPS", "/">>}
        ELSE IF HasPrefix(<<"EPUB", "/">>) THEN {<<"EPUB", "/">>}
        ELSE IF HasPrefix(<<"content", "/">>) THEN {<<"content", "/">>}
        ELSE {<<>>}

(***************************************************************************)
(* The OPF package document.  A document is the record of what the file    *)
(* holds, every text and attribute value in its serialized (raw) form:     *)
(*   identifiers .. dates   the raw text of each dc: element, in order     *)
(*   metas                  <meta property="P">text</meta>, in order       *)
(*   cover                  <meta name="cover" content="C"/> when present  *)
(*   manifest, spine        the raw attribute values of item and itemref   *)
(***************************************************************************)
MapSeq(s, Op(_)) == [i \in 1..Len(s) |-> Op(s[i])]

OpfItem(item) ==
    [id |-> xml_escape(item.id), href |-> xml_escape(item.href),
     media_type |-> xml_escape(item.media_type), properties |-> item.properties]

\* writer.rs generate_opf; uuid and now are what Uuid::new_v4 and
\* format_iso8601 return in this run
generate_opf(book, uuid, now) ==
    LET m == book.metadata
        keys == SortedKeys(DOMAIN m.custom)
    IN  [version |-> <<"3.0">>,
         identifiers |-> IF m.identifiers = <<>>
                         THEN << <<"urn:uuid:", uuid>> >>
                         ELSE MapSeq(m.identifiers, xml_escape),
         titles |-> MapSeq(m.titles, xml_escape),
         languages |-> IF m.languages = <<>> THEN << <<"en">> >> ELSE m.languages,
         creators |-> MapSeq(m.creators, xml_escape),
         publishers |-> MapSeq(m.publishers, xml_escape),
         description |-> MapSeq(m.description, xml_escape),
         subjects |-> MapSeq(m.subjects, xml_escape),
         rights |-> MapSeq(m.rights, xml_escape),
         dates |-> MapSeq(m.dates, xml_escape),
         metas |-> << [property |-> DCTERMS_MODIFIED,
                       text |-> IF IsSome(m.modified) THEN m.modified[1] ELSE <<now>>] >>
                   \o [i \in 1..Len(keys) |->
                         [property |-> xml_escape(keys[i]),
                          text |-> xml_escape(m.custom[keys[i]])]],
         cover |-> None,
         manifest |-> << ManifestItem(<<"toc">>, TOC_XHTML, XHTML_MT, Some(NAV_PROP)),
                         ManifestItem(<<"ncx">>, TOC_NCX, NCX_MT, None) >>
                      \o MapSeq(book.manifest, OpfItem),
         spine |-> [i \in 1..Len(book.spine) |->
                      SpineItem(book.spine[i].idref, book.spine[i].linear, None)]]

\* A raw "<" inside element text starts a tag: the pull parser ends in Err.
TextBreaksXml(raw) == \E i \in 1..Len(raw) : raw[i] = "<"

AllTexts(doc) ==
    Range(doc.identifiers) \cup Range(doc.titles) \cup Range(doc.languages)
    \cup Range(doc.creators) \cup Range(doc.publishers) \cup Range(doc.description)
    \cup Range(doc.subjects) \cup Range(doc.rights) \cup Range(doc.dates)
    \cup {doc.metas[i].text : i \in 1..Len(doc.metas)}

\* parse_opf, Event::Text + Event::End for one text-bearing element: the
\* element is recorded when the unescaped text is not empty, trimmed.
RECURSIVE ParseTexts(_)
ParseTexts(raws) ==
    IF raws = <<>> THEN <<>>
    ELSE LET t == unescape_or_default(Head(raws))
         IN  (IF t = <<>> THEN <<>> ELSE <<Trim(t)>>) \o ParseTexts(Tail(raws))

\* description and rights are Option fields: the last element wins
LastOf(s) == IF s = <<>> THEN None ELSE Some(s[Len(s)])

RECURSIVE ParseMetas(_, _)
\* folds <meta property=..>text</meta> into [modified, custom]
ParseMetas(metas, acc) ==
    IF metas = <<>> THEN acc
    ELSE LET e == Head(metas)
             t == unescape_or_default(e.text)
             next == IF t = <<>> \/ e.property = <<>> THEN acc
                     ELSE IF e.property = DCTERMS_MODIFIED
                          THEN [acc EXCEPT !.modified = Some(Trim(t))]
                          ELSE [acc EXCEPT !.custom = MapInsert(@, e.property, Trim(t))]
         IN  ParseMetas(Tail(metas), next)

ParseItem(it) == ManifestItem(it.id, it.href, it.media_type, it.properties)

\* opf.rs parse_opf: [ok, metadata, manifest, spine, version]
parse_opf(doc) ==
    IF \E t \in AllTexts(doc) : TextBreaksXml(t)
    THEN [ok |-> FALSE]
    ELSE LET pm == ParseMetas(doc.metas, [modified |-> None, custom |-> EmptyMap])
         IN  [ok |-> TRUE,
              metadata |->
                [identifiers |-> ParseTexts(doc.identifiers),
                 titles |-> ParseTexts(doc.titles),
                 languages |-> ParseTexts(doc.languages),
                 creators |-> ParseTexts(doc.creators),
                 publishers |-> ParseTexts(doc.publishers),
                 dates |-> ParseTexts(doc.dates),
                 description |-> LastOf(ParseTexts(doc.description)),
                 subjects |-> ParseTexts(doc.subjects),
                 rights |-> LastOf(ParseTexts(doc.rights)),
                 modified |-> pm.modified,
                 cover_id |-> doc.cover,
                 custom |-> pm.custom],
              manifest |-> MapSeq(doc.manifest, ParseItem),
              spine |-> doc.spine,
              version |-> IF StartsWith(doc.version, <<"2">>) THEN "V2" ELSE "V3"]

(***************************************************************************)
(* Navigation documents (writer.rs write_nav_ol / write_ncx_points,        *)
(* navigation.rs parse_nav_xhtml / parse_ncx): a document is the tree of   *)
(* its <li><a href>label</a> (or navPoint) elements, values in raw form.   *)
(***************************************************************************)
RECURSIVE EscapeNav(_)
EscapeNav(points) ==
    [i \in 1..Len(points) |->
        NavPoint(xml_escape(points[i].label), xml_escape(points[i].href),
                 EscapeNav(points[i].children))]

RECURSIVE ParseNav(_)
\* href is the raw attribute value; label is unescaped and trimmed
ParseNav(points) ==
    [i \in 1..Len(points) |->
        NavPoint(Trim(unescape_or_default(points[i].label)), points[i].href,
                 ParseNav(points[i].children))]

\* navigation.rs parse_nav_xhtml on an entry's content: a document without
\* <nav epub:type="toc"> parses to an empty table of contents
parse_nav_xhtml(data) == IF data.kind = "nav" THEN ParseNav(data.toc) ELSE <<>>

\* navigation.rs parse_ncx
parse_ncx(data) == IF data.kind = "ncx" THEN ParseNav(data.toc) ELSE <<>>

IsUtf8(data) == data.kind # "bytes"

FirstIndex(s, P(_)) ==
    IF \E i \in 1..Len(s) : P(s[i])
    THEN CHOOSE i \in 1..Len(s) : P(s[i]) /\ \A j \in 1..(i - 1) : ~P(s[j])
    ELSE 0

\* navigation.rs parse_navigation; res maps ZIP paths to entry contents
parse_navigation(manifest, opf_dir, res) ==
    LET IsNav(it) == IsSome(it.properties) /\ Contains(it.properties[1], NAV_PROP)
        IsNcx(it) == it.media_type = NCX_MT
        HasContent(it) == (opf_dir \o it.href) \in DOMAIN res /\ IsUtf8(res[opf_dir \o it.href])
        n == FirstIndex(manifest, IsNav)
        x == FirstIndex(manifest, IsNcx)
    IN  IF n # 0 /\ HasContent(manifest[n])
        THEN Navigation(parse_nav_xhtml(res[opf_dir \o manifest[n].href]), "V3")
        ELSE IF x # 0 /\ HasContent(manifest[x])
        THEN Navigation(parse_ncx(res[opf_dir \o manifest[x].href]), "V2")
        ELSE Navigation(<<>>, "V3")

(***************************************************************************)
(* ZIP archives: a file is the sequence of its entries and whether the     *)
(* central directory was written (ZipWriter::finish).                      *)
(***************************************************************************)
Entry(name, method, data) == [name |-> name, method |-> method, data |-> data]

NoFile == [exists |-> FALSE, entries |-> <<>>, finished |-> FALSE]
EmptyFile == [exists |-> TRUE, entries |-> <<>>, finished |-> FALSE]
CompleteArchive(entries) == [exists |-> TRUE, entries |-> entries, finished |-> TRUE]

TextData(t) == [kind |-> "text", text |-> t]
Bytes(v) == [kind |-> "bytes", v |-> v]
Xhtml(headings) == [kind |-> "xhtml", headings |-> headings]

\* writer.rs write_epub lines 46-63: the entry a resource is written to, or
\* None when the resource is skipped
ResourceZipPath(key) ==
    IF EndsWith(key, OPF_EXT) \/ EndsWith(key, TOC_XHTML) \/ EndsWith(key, TOC_NCX)
    THEN None
    ELSE IF StartsWith(key, OEBPS) \/ StartsWith(key, META_INF)
         THEN Some(key)
         ELSE Some(OEBPS \o key)

RECURSIVE ResourceEntries(_, _)
ResourceEntries(res, order) ==
    IF order = <<>> THEN <<>>
    ELSE LET key == Head(order)
             zp == ResourceZipPath(key)
         IN  (IF IsSome(zp) THEN <<Entry(zp[1], "Deflated", res[key])>> ELSE <<>>)
             \o ResourceEntries(res, Tail(order))

\* mutant of WriteEntries: the container is written before the mimetype
WriteEntries_ContainerFirst(book, uuid, now, order) ==
    << Entry(CONTAINER_PATH, "Deflated",
             [kind |-> "container", full_path |-> Some(OEBPS \o <<"content", ".opf">>)]),
       Entry(MIMETYPE_NAME, "Stored", TextData(MIMETYPE)) >>
    \o ResourceEntries(book.resources, order)

\* writer.rs write_epub lines 14-63: the start_file/write_all calls in order;
\* order is the iteration order of book.resources
WriteEntries(book, uuid, now, order) ==
    << Entry(MIMETYPE_NAME, "Stored", TextData(MIMETYPE)),
       Entry(CONTAINER_PATH, "Deflated",
             [kind |-> "container", full_path |-> Some(OEBPS \o <<"content", ".opf">>)]),
       Entry(OEBPS \o <<"content", ".opf">>, "Deflated",
             [kind |-> "opf", doc |-> generate_opf(book, uuid, now)]),
       Entry(OEBPS \o TOC_XHTML, "Deflated",
             [kind |-> "nav", toc |-> EscapeNav(book.navigation.toc)]),
       Entry(OEBPS \o TOC_NCX, "Deflated",
             [kind |-> "ncx", toc |-> EscapeNav(book.navigation.toc)]) >>
    \o ResourceEntries(book.resources, order)

\* ZipWriter::start_file refuses a name the archive already holds
StartFileFails(entries, name) == \E i \in 1..Len(entries) : entries[i].name = name

RECURSIVE FirstDuplicate(_, _)
\* index of the first entry of es whose start_file fails, 0 when none does
FirstDuplicate(es, i) ==
    IF i > Len(es) THEN 0
    ELSE IF StartFileFails(SubSeq(es, 1, i - 1), es[i].name) THEN i
    ELSE FirstDuplicate(es, i + 1)

(***************************************************************************)
(* reader.rs read_epub                                                     *)
(***************************************************************************)
\* ZipArchive::by_name
EntryByName(file, name) ==
    LET idx == {i \in 1..Len(file.entries) : file.entries[i].name = name}
    IN  IF idx = {} THEN None
        ELSE Some(file.entries[CHOOSE i \in idx : \A j \in idx : j <= i].data)

\* zip_utils.rs validate_mimetype
validate_mimetype(file) ==
    /\ Len(file.entries) >= 1
    /\ file.entries[1].name = MIMETYPE_NAME
    /\ file.entries[1].data.kind = "text"
    /\ Trim(file.entries[1].data.text) = MIMETYPE

\* reader.rs lines 25-35
LoadResources(file) ==
    LET names == {file.entries[i].name : i \in 1..Len(file.entries)}
        kept == {n \in names : n # MIMETYPE_NAME /\ ~StartsWith(n, META_INF)}
    IN  [n \in kept |-> EntryByName(file, n)[1]]

ReadFail == [ok |-> FALSE]

\* reader.rs read_epub: [ok, book]
read_epub(file) ==
    IF ~(file.exists /\ file.finished) THEN ReadFail
    ELSE IF ~validate_mimetype(file) THEN ReadFail
    ELSE LET c == EntryByName(file, CONTAINER_PATH)
         IN  IF ~IsSome(c) \/ c[1].kind # "container" \/ ~IsSome(c[1].full_path)
             THEN ReadFail
             ELSE LET opf_path == c[1].full_path[1]
                      opf_dir == SubSeq(opf_path, 1, RFind(opf_path, "/"))
                      o == EntryByName(file, opf_path)
                  IN  IF ~IsSome(o) \/ o[1].kind # "opf" THEN ReadFail
                      ELSE LET d == parse_opf(o[1].doc)
                               res == LoadResources(file)
                           IN  IF ~d.ok THEN ReadFail
                               ELSE [ok |-> TRUE,
                                     book |-> EpubBook(d.metadata, d.manifest, d.spine,
                                                parse_navigation(d.manifest, opf_dir, res),
                                                res)]

(***************************************************************************)
(* Helpers of the editing operations                                       *)
(***************************************************************************)
\* slug::slugify on one token: letters are lowercased, every other character
\* becomes "-"
SlugToken(t) ==
    CASE t = "Intro" -> <<"intro">>
      [] t = "Notes" -> <<"notes">>
      [] t = "One"   -> <<"one">>
      [] t = "Two"   -> <<"two">>
      [] t = "Sec"   -> <<"sec">>
      [] t = "Using" -> <<"using">>
      [] t \in {"!", " ", "/", "[", "]", "](", ")", "#", "&"} -> <<"-">>
      [] t = ".png"  -> <<"-", "png">>
      [] t = ".css"  -> <<"-", "css">>
      [] OTHER       -> <<t>>

RECURSIVE SlugRaw(_)
SlugRaw(s) == IF s = <<>> THEN <<>> ELSE SlugToken(Head(s)) \o SlugRaw(Tail(s))

RECURSIVE SlugCollapse(_)
\* runs of "-" collapse to one, none is kept at the start
SlugCollapse(s) ==
    IF s = <<>> THEN <<>>
    ELSE IF Head(s) = "-"
         THEN LET r == SlugCollapse(Tail(s))
              IN  IF r = <<>> \/ Head(r) = "-" THEN r ELSE <<"-">> \o r
         ELSE <<Head(s)>> \o SlugCollapse(Tail(s))

\* slug::slugify as add_chapter and add_asset call it
slugify(s) ==
    LET c == SlugCollapse(SlugRaw(s))
    IN  IF c # <<>> /\ Head(c) = "-" THEN Tail(c) ELSE c

DigitTokens == <<"0", "1", "2", "3", "4", "5", "6", "7", "8", "9">>

\* str::parse::<usize>: Some(n) for a decimal number, None otherwise
ParseUsize(s) ==
    IF Len(s) = 1 /\ \E i \in 1..Len(DigitTokens) : DigitTokens[i] = s[1]
    THEN Some((CHOOSE i \in 1..Len(DigitTokens) : DigitTokens[i] = s[1]) - 1)
    ELSE None

\* a Markdown file: its path stem and its ATX headings in order
MdFile(stem, headings) == [stem |-> stem, headings |-> headings]

Heading(level, text) == [level |-> level, text |-> text]

\* md_to_xhtml.rs markdown_to_xhtml: the headings of the source become the
\* h1..h6 elements of the document
markdown_to_xhtml(md, title) == Xhtml(md.headings)

IsTag(t) == t \in {"<b>", "</b>", "<em>", "</em>"}

\* util.rs strip_html_tags
strip_html_tags(s) == Trim(SelectSeq(s, LAMBDA t : ~IsTag(t)))

\* util.rs find_resource_key: the keys the lookup can return
find_resource_key(res, href) ==
    IF href \in DOMAIN res THEN {href}
    ELSE {k \in DOMAIN res : EndsWith(k, href)}

\* one step of the loop of build_nav_tree: the while-let that pops the stack
RECURSIVE NavPop(_, _)
NavPop(st, depth) ==
    IF st.stack # <<>> /\ st.stack[Len(st.stack)].d >= depth
    THEN LET n == Len(st.stack)
             children == st.stack[n].points
             rest == SubSeq(st.stack, 1, n - 1)
         IN  IF rest # <<>>
             THEN LET pc == rest[n - 1].points
                  IN  NavPop([root |-> st.root,
                              stack |-> IF pc # <<>>
                                        THEN [rest EXCEPT ![n - 1].points[Len(pc)].children = children]
                                        ELSE rest],
                             depth)
             ELSE NavPop([root |-> st.root \o children, stack |-> rest], depth)
    ELSE st

RECURSIVE NavFold(_, _)
NavFold(links, st) ==
    IF links = <<>> THEN st
    ELSE LET l == Head(links)
             point == NavPoint(l.label, l.href, <<>>)
             p == NavPop(st, l.depth)
             n == Len(p.stack)
             next == IF n > 0
                     THEN [p EXCEPT !.stack[n].points = Append(@, point)]
                     ELSE [p EXCEPT !.stack = <<[d |-> l.depth, points |-> <<point>>]>>]
         IN  NavFold(Tail(links), next)

\* util.rs build_nav_tree; links are [label, href, depth]
build_nav_tree(links) ==
    NavPop(NavFold(links, [root |-> <<>>, stack |-> <<>>]), 0).root

Link(label, href, depth) == [label |-> label, href |-> href, depth |-> depth]

(***************************************************************************)
(* Editing operations (src/manipulate).  Each operator gives the set of    *)
(* outcomes [ok, book] the call can have on a Book; more than one when the *)
(* code depends on the iteration order of a HashMap.                       *)
(***************************************************************************)
Failed == [ok |-> FALSE]
Done(book) == [ok |-> TRUE, book |-> book]

MapRemoveAll(m, ks) == [x \in (DOMAIN m) \ ks |-> m[x]]

\* chapter_manage.rs find_spine_position: Some(0-based index) or None
find_spine_position(book, id_or_index) ==
    LET n == ParseUsize(id_or_index)
        ByRef(s) == s.idref = id_or_index
    IN  IF IsSome(n) /\ n[1] < Len(book.spine) THEN Some(n[1])
        ELSE IF FirstIndex(book.spine, ByRef) # 0
             THEN Some(FirstIndex(book.spine, ByRef) - 1)
             ELSE None

\* chapter_manage.rs resolve_chapter: Some(<<0-based index, idref>>), None is Err
resolve_chapter(book, id_or_index) ==
    LET n == ParseUsize(id_or_index)
        ByRef(s) == s.idref = id_or_index
    IN  IF IsSome(n) /\ n[1] < Len(book.spine)
        THEN Some(<<n[1], book.spine[n[1] + 1].idref>>)
        ELSE IF FirstIndex(book.spine, ByRef) # 0
             THEN Some(<<FirstIndex(book.spine, ByRef) - 1, id_or_index>>)
             ELSE None

RECURSIVE remove_from_nav(_, _)
\* chapter_manage.rs remove_from_nav
remove_from_nav(toc, href) ==
    LET kept == SelectSeq(toc, LAMBDA p : p.href # href)
    IN  [i \in 1..Len(kept) |->
            NavPoint(kept[i].label, kept[i].href, remove_from_nav(kept[i].children, href))]

\* add_chapter lines 14-27: the title given, else the first "# " heading,
\* else the file stem
ChapterTitle(md, title) ==
    LET IsH1(h) == h.level = 1
        i == FirstIndex(md.headings, IsH1)
    IN  IF IsSome(title) THEN title[1]
        ELSE IF i # 0 THEN Trim(md.headings[i].text)
        ELSE md.stem

\* chapter_manage.rs add_chapter with detect_opf_dir returning opf_dir
AddChapterIn(book, opf_dir, md, after, title) ==
    LET chapter_title == ChapterTitle(md, title)
        xhtml == markdown_to_xhtml(md, chapter_title)
        id == <<"chapter-added-">> \o slugify(chapter_title)
        href == slugify(chapter_title) \o <<".xhtml">>
        found == IF IsSome(after) THEN find_spine_position(book, after[1]) ELSE None
        insert_pos == IF IsSome(found) THEN Some(found[1] + 1) ELSE None
        item == ManifestItem(id, href, XHTML_MT, None)
        spine_item == SpineItem(id, TRUE, None)
        nav_point == NavPoint(chapter_title, href, <<>>)
        toc == book.navigation.toc
    IN  [book EXCEPT
            !.resources = MapInsert(@, opf_dir \o href, xhtml),
            !.manifest = Append(@, item),
            !.spine = IF IsSome(insert_pos)
                      THEN InsertAt(@, insert_pos[1] + 1, spine_item)
                      ELSE Append(@, spine_item),
            !.navigation.toc = IF IsSome(insert_pos) /\ insert_pos[1] <= Len(toc)
                               THEN InsertAt(toc, insert_pos[1] + 1, nav_point)
                               ELSE Append(toc, nav_point)]

add_chapter(book, md, after, title) ==
    {Done(AddChapterIn(book, d, md, after, title)) : d \in OpfDirCandidates(book.resources)}

\* chapter_manage.rs remove_chapter with detect_opf_dir returning opf_dir
RemoveChapterIn(book, opf_dir, spine_idx, idref) ==
    LET ById(m) == m.id = idref
        i == FirstIndex(book.manifest, ById)
        b1 == [book EXCEPT !.spine = RemoveAt(@, spine_idx + 1),
                           !.manifest = SelectSeq(@, LAMBDA m : m.id # idref)]
    IN  IF i = 0 THEN b1
        ELSE LET href == book.manifest[i].href
             IN  [b1 EXCEPT !.resources = MapRemoveAll(@, {opf_dir \o href, href}),
                            !.navigation.toc = remove_from_nav(@, href)]

remove_chapter(book, id_or_index) ==
    LET r == resolve_chapter(book, id_or_index)
    IN  IF ~IsSome(r) THEN {Failed}
        ELSE {Done(RemoveChapterIn(book, d, r[1][1], r[1][2])) :
                 d \in OpfDirCandidates(book.resources)}

\* a variant that exchanges the two items instead of moving one
reorder_chapter_Swap(book, from, to) ==
    IF from >= Len(book.spine) \/ to >= Len(book.spine) THEN {Failed}
    ELSE {Done([book EXCEPT !.spine =
                  [@ EXCEPT ![from + 1] = book.spine[to + 1],
                            ![to + 1] = book.spine[from + 1]]])}

\* chapter_manage.rs reorder_chapter; from and to count from 0
reorder_chapter(book, from, to) ==
    IF from >= Len(book.spine) \/ to >= Len(book.spine) THEN {Failed}
    ELSE {Done([book EXCEPT !.spine =
                  InsertAt(RemoveAt(@, from + 1), to + 1, book.spine[from + 1])])}

\* toc_edit.rs reorder_spine
reorder_spine(book, from, to) ==
    IF from >= Len(book.spine) \/ to >= Len(book.spine) THEN {Failed}
    ELSE {Done([book EXCEPT !.spine =
                  InsertAt(RemoveAt(@, from + 1), to + 1, book.spine[from + 1])])}

\* mutant of set_spine_order: idrefs the spine does not have are skipped
set_spine_order_SkipUnknown(book, idrefs) ==
    LET Pos(r) == FirstIndex(book.spine, LAMBDA s : s.idref = r)
        known == SelectSeq(idrefs, LAMBDA r : Pos(r) # 0)
    IN  {Done([book EXCEPT !.spine = [i \in 1..Len(known) |-> book.spine[Pos(known[i])]]])}

\* toc_edit.rs set_spine_order
set_spine_order(book, idrefs) ==
    LET Pos(r) == FirstIndex(book.spine, LAMBDA s : s.idref = r)
    IN  IF \E i \in 1..Len(idrefs) : Pos(idrefs[i]) = 0 THEN {Failed}
        ELSE {Done([book EXCEPT !.spine =
                      [i \in 1..Len(idrefs) |-> book.spine[Pos(idrefs[i])]]])}

\* asset_embed.rs infer_media_type, by the extension token of the file name
infer_media_type(filename) ==
    LET ext == IF filename = <<>> THEN "" ELSE filename[Len(filename)]
    IN  CASE ext = ".png"   -> PNG_MT
          [] ext = ".css"   -> CSS_MT
          [] ext = ".xhtml" -> XHTML_MT
          [] OTHER          -> OCTET_MT

\* Path::file_name: the part after the last "/"
file_name(path) == SubSeq(path, RFind(path, "/") + 1, Len(path))

\* asset_manage.rs add_asset with detect_opf_dir returning opf_dir; data is
\* the content of the file at asset_path
AddAssetIn(book, opf_dir, asset_path, media_type_override, data) ==
    LET filename == file_name(asset_path)
        media_type == IF IsSome(media_type_override) THEN media_type_override[1]
                      ELSE infer_media_type(asset_path)
        id == <<"asset-">> \o slugify(filename)
    IN  [book EXCEPT
            !.resources = MapInsert(@, opf_dir \o filename, data),
            !.manifest = Append(@, ManifestItem(id, filename, media_type, None))]

add_asset(book, asset_path, media_type_override, data) ==
    {Done(AddAssetIn(book, d, asset_path, media_type_override, data)) :
        d \in OpfDirCandidates(book.resources)}

\* asset_manage.rs remove_asset
remove_asset(book, asset_path) ==
    LET Named(m) == m.href = asset_path \/ m.id = asset_path
        i == FirstIndex(book.manifest, Named)
    IN  IF i = 0 THEN {Failed}
        ELSE LET item == book.manifest[i]
             IN  {Done([book EXCEPT
                          !.manifest = SelectSeq(@, LAMBDA m : m.id # item.id),
                          !.resources = MapRemoveAll(@, {d \o item.href, item.href})]) :
                     d \in OpfDirCandidates(book.resources)}

\* Vec<String> with its first element replaced, or the value pushed
SetFirst(v, value) == IF v = <<>> THEN <<value>> ELSE [v EXCEPT ![1] = value]

\* meta_edit.rs set_field; the named fields are single tokens
set_field(book, field, value) ==
    LET m == book.metadata
        f == IF Len(field) = 1 THEN field[1] ELSE ""
        md == CASE f = "title"       -> [m EXCEPT !.titles = SetFirst(@, value)]
                [] f \in {"creator", "author"} -> [m EXCEPT !.creators = <<value>>]
                [] f = "language"    -> [m EXCEPT !.languages = <<value>>]
                [] f = "publisher"   -> [m EXCEPT !.publishers = <<value>>]
                [] f = "description" -> [m EXCEPT !.description = Some(value)]
                [] f = "rights"      -> [m EXCEPT !.rights = Some(value)]
                [] f = "identifier"  -> [m EXCEPT !.identifiers = SetFirst(@, value)]
                [] f = "date"        -> [m EXCEPT !.dates = <<value>>]
                [] f = "subject"     -> [m EXCEPT !.subjects = Append(@, value)]
                [] OTHER             -> [m EXCEPT !.custom = MapInsert(@, field, value)]
    IN  {Done([book EXCEPT !.metadata = md])}

\* meta_edit.rs remove_field
remove_field(book, field) ==
    LET m == book.metadata
        f == IF Len(field) = 1 THEN field[1] ELSE ""
        md == CASE f = "title"       -> [m EXCEPT !.titles = <<>>]
                [] f \in {"creator", "author"} -> [m EXCEPT !.creators = <<>>]
                [] f = "language"    -> [m EXCEPT !.languages = <<>>]
                [] f = "publisher"   -> [m EXCEPT !.publishers = <<>>]
                [] f = "description" -> [m EXCEPT !.description = None]
                [] f = "rights"      -> [m EXCEPT !.rights = None]
                [] f = "identifier"  -> [m EXCEPT !.identifiers = <<>>]
                [] f = "date"        -> [m EXCEPT !.dates = <<>>]
                [] f = "subject"     -> [m EXCEPT !.subjects = <<>>]
                [] OTHER             -> [m EXCEPT !.custom = MapRemove(@, field)]
    IN  {Done([book EXCEPT !.metadata = md])}

\* toc_edit.rs set_toc_from_markdown; links are the (label, href, depth) of
\* the links of the Markdown list, label trimmed
set_toc_from_markdown(book, links) ==
    {Done([book EXCEPT !.navigation.toc =
             build_nav_tree([i \in 1..Len(links) |->
                 Link(Trim(links[i].label), links[i].href, links[i].depth)])])}

RECURSIVE HeadingPoints(_, _, _)
\* generate_toc lines 101-114: the nav points of one document
HeadingPoints(headings, href, max_depth) ==
    IF headings = <<>> THEN <<>>
    ELSE LET h == Head(headings)
             text == strip_html_tags(h.text)
             rest == HeadingPoints(Tail(headings), href, max_depth)
         IN  IF h.level > max_depth \/ text = <<>> THEN rest
             ELSE <<NavPoint(text, href, <<>>)>> \o rest

RECURSIVE GenerateTocFrom(_, _, _, _)
\* generate_toc lines 81-115 from spine position i on: the tables of
\* contents the loop can build
GenerateTocFrom(book, i, max_depth, acc) ==
    IF i > Len(book.spine) THEN {acc}
    ELSE LET ById(m) == m.id = book.spine[i].idref
             j == FirstIndex(book.manifest, ById)
             skip == GenerateTocFrom(book, i + 1, max_depth, acc)
         IN  IF j = 0 THEN skip
             ELSE IF ~Contains(book.manifest[j].media_type, <<"html">>) THEN skip
             ELSE LET href == book.manifest[j].href
                      keys == find_resource_key(book.resources, href)
                  IN  IF keys = {} THEN skip
                      ELSE UNION {
                             IF book.resources[k].kind # "xhtml" THEN skip
                             ELSE GenerateTocFrom(book, i + 1, max_depth,
                                    acc \o HeadingPoints(book.resources[k].headings,
                                                         href, max_depth))
                             : k \in keys}

\* toc_edit.rs generate_toc
generate_toc(book, max_depth) ==
    LET d == IF IsSome(max_depth) THEN max_depth[1] ELSE 3
    IN  {Done([book EXCEPT !.navigation.toc = t]) : t \in GenerateTocFrom(book, 1, d, <<>>)}

(***************************************************************************)
(* State                                                                   *)
(*   names    the directory: file name -> inode                            *)
(*   inodes   inode -> file content                                        *)
(*   wpc, wfd, wplan, wnext, wbook   one write_epub call per writer: its   *)
(*            position, its open file, the entries it writes, the next one *)
(*   wpath    the path write_epub is called with                           *)
(*   worig    the content of the file at wpath before the call             *)
(*   disk     the EPUB file the editing commands work on                   *)
(*   prev     that file before the last command                            *)
(*   cmd      the last command and its arguments                           *)
(*   result   "ok" or "err": what the last command returned                *)
(*   started  whether the last command called write_epub                   *)
(*   edited   the Book the last command handed to write_epub, if any       *)
(*   edits    the number of commands run so far                            *)
(*   cE       an EPUB file taken through read_epub, write_epub, read_epub  *)
(*   cpc      how far that cycle has come                                  *)
(*   cB1      the outcome of the first read_epub                           *)
(*   cE2      the outcome of write_epub on that Book                       *)
(*   cB2      the outcome of read_epub on the written file                 *)
(*   tE       an EPUB file taken through extract and assemble              *)
(*   tset     the `metadata set` run on it first, if any                   *)
(*   tpc      how far the round trip has come                              *)
(*   tB       the outcome of read_epub in `book extract`                   *)
(*   tree     the directory `book extract` wrote                           *)
(*   tOut     the outcome of `book assemble` on that directory             *)
(*   tB2      the outcome of read_epub on the assembled file               *)
(*   fIn      the arguments of one call of a pure function                 *)
(*   fpc      how far that call has come                                   *)
(*   fMid     the values its earlier stages returned                       *)
(*   fOut     what the call returned                                       *)
(***************************************************************************)
VARIABLES names, inodes, wpc, wfd, wplan, wnext, wbook, wpath, worig,
          disk, prev, cmd, result, started, edited, edits,
          cE, cpc, cB1, cE2, cB2,
          tE, tset, tpc, tB, tree, tOut, tB2,
          fIn, fpc, fMid, fOut

writeVars == <<names, inodes, wpc, wfd, wplan, wnext, wbook, wpath, worig>>

editVars == <<disk, prev, cmd, result, started, edited, edits>>

cycleVars == <<cE, cpc, cB1, cE2, cB2>>

tripVars == <<tE, tset, tpc, tB, tree, tOut, tB2>>

callVars == <<fIn, fpc, fMid, fOut>>

vars == <<writeVars, editVars, cycleVars, tripVars, callVars>>

notWriteVars == <<editVars, cycleVars, tripVars, callVars>>
notEditVars == <<writeVars, cycleVars, tripVars, callVars>>
notCycleVars == <<writeVars, editVars, tripVars, callVars>>
notTripVars == <<writeVars, editVars, cycleVars, callVars>>
notCallVars == <<writeVars, editVars, cycleVars, tripVars>>

\* no write_epub call is being followed step by step
WriteIdle ==
    /\ names = EmptyMap /\ inodes = <<>> /\ wpc = <<>> /\ wfd = <<>> /\ wplan = <<>>
    /\ wnext = <<>> /\ wbook = <<>> /\ wpath = <<>> /\ worig = NoFile

\* no editing command has run
EditIdle ==
    /\ disk = NoFile /\ prev = NoFile /\ cmd = [op |-> "none"] /\ result = "none"
    /\ started = FALSE /\ edited = None /\ edits = 0

\* no file is being taken through the read-write-read cycle
CycleIdle ==
    /\ cE = NoFile /\ cpc = "idle" /\ cB1 = ReadFail /\ cE2 = [ok |-> FALSE]
    /\ cB2 = ReadFail

\* no file is being taken through extract and assemble
TripIdle ==
    /\ tE = NoFile /\ tset = None /\ tpc = "idle" /\ tB = ReadFail /\ tree = None
    /\ tOut = [ok |-> FALSE] /\ tB2 = ReadFail

\* no pure function is being followed
CallIdle == fIn = <<>> /\ fpc = "idle" /\ fMid = <<>> /\ fOut = <<>>

(***************************************************************************)
(* Sample books                                                            *)
(***************************************************************************)
Str(t) == <<t>>
CH1 == <<"ch1", ".xhtml">>
CH2 == <<"ch2", ".xhtml">>

SimpleMetadata ==
    [EmptyMetadata EXCEPT !.identifiers = <<Str("urn:uuid:1")>>, !.titles = <<Str("T")>>,
                          !.languages = <<Str("en")>>]

\* a book as read from an archive rooted at dir, resources given by res
BookWith(md, res) ==
    EpubBook(md,
             <<ManifestItem(Str("ch1"), CH1, XHTML_MT, None)>>,
             <<SpineItem(Str("ch1"), TRUE, None)>>,
             Navigation(<<NavPoint(Str("One"), CH1, <<>>)>>, "V3"),
             res)

Res1(key, d) == [k \in {key} |-> d]
Res2(k1, d1, k2, d2) == [k \in {k1, k2} |-> IF k = k1 THEN d1 ELSE d2]
Res3(k1, d1, k2, d2, k3, d3) ==
    [k \in {k1, k2, k3} |-> IF k = k1 THEN d1 ELSE IF k = k2 THEN d2 ELSE d3]

H1 == Xhtml(<<[level |-> 1, text |-> Str("One")]>>)
H2 == Xhtml(<<[level |-> 2, text |-> Str("Two")]>>)

\* the Books write_epub is called with in SpecWrite
WriteBooks ==
    { BookWith(SimpleMetadata, Res1(OEBPS \o CH1, H1)),
      BookWith(EmptyMetadata, Res2(CH1, H1, MIMETYPE_NAME, Bytes("m"))),
      BookWith(SimpleMetadata, Res2(OEBPS \o CH1, H1, CONTAINER_PATH, Bytes("c"))),
      BookWith(SimpleMetadata,
               Res2(OEBPS \o CH1, H1, META_INF \o <<"encryption", ".xml">>, Bytes("e"))),
      BookWith(SimpleMetadata,
               Res3(<<"OPS", "/">> \o CH1, H1, <<"OPS", "/", "content", ".opf">>, Bytes("o"),
                    <<"OPS", "/">> \o TOC_NCX, Bytes("n"))),
      BookWith(SimpleMetadata, Res2(CH1, H1, OEBPS \o CH1, H2)),
      EpubBook(EmptyMetadata, <<>>, <<>>, Navigation(<<>>, "V3"), EmptyMap) }

Uuids == {"u1", "u2"}
Times == {"t1"}

\* all orders in which a HashMap with these keys can be iterated
RECURSIVE Orders(_)
Orders(S) ==
    IF S = {} THEN {<<>>}
    ELSE UNION {{<<k>> \o o : o \in Orders(S \ {k})} : k \in S}

(***************************************************************************)
(* writer.rs write_epub, one action per file-system step                   *)
(***************************************************************************)
IsExt(t) == t \in {".epub", ".zip", ".tmp"}

\* Path::with_extension
with_extension(p, e) ==
    (IF Len(p) > 1 /\ IsExt(p[Len(p)]) THEN SubSeq(p, 1, Len(p) - 1) ELSE p) \o e

\* mutant of tmp_path: the archive is serialized straight into the target
tmp_path_InPlace(p) == p

\* writer.rs line 10
tmp_path(p) == with_extension(p, <<".epub", ".tmp">>)

FileAt(name) == IF name \in DOMAIN names THEN inodes[names[name]] ELSE NoFile

\* a complete archive that an earlier run left at the path
OldArchive ==
    [exists |-> TRUE, finished |-> TRUE,
     entries |-> WriteEntries(BookWith(SimpleMetadata, Res1(OEBPS \o CH1, H2)),
                              "u0", "t0", <<OEBPS \o CH1>>)]

WritePaths == {<<"book", ".epub">>, <<"book", ".zip">>}

InitWrite ==
    /\ wpath \in WritePaths
    /\ worig \in {NoFile, OldArchive}
    /\ names = IF worig.exists THEN [n \in {wpath} |-> 1] ELSE EmptyMap
    /\ inodes = IF worig.exists THEN <<worig>> ELSE <<>>
    /\ wbook \in [{1} -> WriteBooks]
    /\ \E u \in Uuids, t \in Times :
         \E o \in Orders(DOMAIN wbook[1].resources) :
            wplan = [w \in {1} |-> WriteEntries(wbook[w], u, t, o)]
    /\ wpc = [w \in {1} |-> "create"]
    /\ wfd = [w \in {1} |-> 0]
    /\ wnext = [w \in {1} |-> 1]
    /\ EditIdle
    /\ CycleIdle
    /\ TripIdle
    /\ CallIdle

\* line 11: File::create(&tmp_path) truncates the file or creates it
CreateTmp(w) ==
    /\ wpc[w] = "create"
    /\ LET t == tmp_path(wpath)
       IN  IF t \in DOMAIN names
           THEN /\ inodes' = [inodes EXCEPT ![names[t]] = EmptyFile]
                /\ wfd' = [wfd EXCEPT ![w] = names[t]]
                /\ names' = names
           ELSE /\ inodes' = Append(inodes, EmptyFile)
                /\ wfd' = [wfd EXCEPT ![w] = Len(inodes) + 1]
                /\ names' = MapInsert(names, t, Len(inodes) + 1)
    /\ wpc' = [wpc EXCEPT ![w] = "write"]
    /\ UNCHANGED <<wplan, wnext, wbook, wpath, worig>>

\* lines 16-62: one start_file + write_all; a name this ZipWriter has already
\* started is an error
WriteEntry(w) ==
    /\ wpc[w] = "write"
    /\ wnext[w] <= Len(wplan[w])
    /\ LET e == wplan[w][wnext[w]]
       IN  IF StartFileFails(SubSeq(wplan[w], 1, wnext[w] - 1), e.name)
           THEN /\ wpc' = [wpc EXCEPT ![w] = "failed"]
                /\ UNCHANGED <<inodes, wnext>>
           ELSE /\ inodes' = [inodes EXCEPT ![wfd[w]].entries = Append(@, e)]
                /\ wnext' = [wnext EXCEPT ![w] = @ + 1]
                /\ wpc' = wpc
    /\ UNCHANGED <<names, wfd, wplan, wbook, wpath, worig>>

\* line 65: zip.finish() writes the central directory
Finish(w) ==
    /\ wpc[w] = "write"
    /\ wnext[w] > Len(wplan[w])
    /\ inodes' = [inodes EXCEPT ![wfd[w]].finished = TRUE]
    /\ wpc' = [wpc EXCEPT ![w] = "rename"]
    /\ UNCHANGED <<names, wfd, wplan, wnext, wbook, wpath, worig>>

\* line 68: std::fs::rename(&tmp_path, path)
Rename(w) ==
    /\ wpc[w] = "rename"
    /\ LET t == tmp_path(wpath)
       IN  IF t \in DOMAIN names
           THEN /\ names' = IF t = wpath THEN names
                            ELSE MapRemove(MapInsert(names, wpath, names[t]), t)
                /\ wpc' = [wpc EXCEPT ![w] = "done"]
           ELSE /\ names' = names
                /\ wpc' = [wpc EXCEPT ![w] = "failed"]
    /\ UNCHANGED <<inodes, wfd, wplan, wnext, wbook, wpath, worig>>

\* any step returns Err (I/O failure) or the process dies: nothing more is
\* written; dropping the ZipWriter may still close the temporary archive
FailWrite(w) ==
    /\ wpc[w] \in {"create", "write", "rename"}
    /\ wpc' = [wpc EXCEPT ![w] = "failed"]
    /\ \/ inodes' = inodes
       \/ /\ wpc[w] = "write"
          /\ inodes' = [inodes EXCEPT ![wfd[w]].finished = TRUE]
    /\ UNCHANGED <<names, wfd, wplan, wnext, wbook, wpath, worig>>

NextWrite ==
    \/ \E w \in DOMAIN wpc : CreateTmp(w) /\ UNCHANGED notWriteVars
    \/ \E w \in DOMAIN wpc : WriteEntry(w) /\ UNCHANGED notWriteVars
    \/ \E w \in DOMAIN wpc : Finish(w) /\ UNCHANGED notWriteVars
    \/ \E w \in DOMAIN wpc : Rename(w) /\ UNCHANGED notWriteVars
    \/ \E w \in DOMAIN wpc : FailWrite(w) /\ UNCHANGED notWriteVars

SpecWrite == InitWrite /\ [][NextWrite]_vars

(***************************************************************************)
(* EPUB files as other tools produce them                                  *)
(***************************************************************************)
\* a package document with the given texts, every other element absent
RawDoc(version, identifiers, titles, languages, metas, manifest, spine) ==
    [version |-> version, identifiers |-> identifiers, titles |-> titles,
     languages |-> languages, creators |-> <<>>, publishers |-> <<>>,
     description |-> <<>>, subjects |-> <<>>, rights |-> <<>>, dates |-> <<>>,
     metas |-> metas, cover |-> None, manifest |-> manifest, spine |-> spine]

\* a complete archive: mimetype, container naming opf_path, the package
\* document at opf_path, then the given entries
Archive(opf_path, doc, files) ==
    CompleteArchive(
        << Entry(MIMETYPE_NAME, "Stored", TextData(MIMETYPE)),
           Entry(CONTAINER_PATH, "Deflated",
                 [kind |-> "container", full_path |-> Some(opf_path)]),
           Entry(opf_path, "Deflated", [kind |-> "opf", doc |-> doc]) >> \o files)

NavDoc(toc) == [kind |-> "nav", toc |-> toc]
NcxDoc(toc) == [kind |-> "ncx", toc |-> toc]

IMG == <<"a", ".png">>

\* an EPUB 3 under OEBPS/: nav document, two chapters, one image
Epub3 ==
    Archive(OEBPS \o <<"content", ".opf">>,
            RawDoc(<<"3.0">>, <<Str("urn:uuid:1")>>, <<Str("T")>>, <<Str("en")>>, <<>>,
                   << ManifestItem(Str("nav"), <<"nav", ".xhtml">>, XHTML_MT, Some(NAV_PROP)),
                      ManifestItem(Str("ch1"), CH1, XHTML_MT, None),
                      ManifestItem(Str("ch2"), CH2, XHTML_MT, None),
                      ManifestItem(Str("img"), IMG, PNG_MT, None) >>,
                   << SpineItem(Str("ch1"), TRUE, None), SpineItem(Str("ch2"), TRUE, None) >>),
            << Entry(OEBPS \o <<"nav", ".xhtml">>, "Deflated",
                     NavDoc(<< NavPoint(Str("One"), CH1, <<>>), NavPoint(Str("Two"), CH2, <<>>) >>)),
               Entry(OEBPS \o CH1, "Deflated", H1),
               Entry(OEBPS \o CH2, "Deflated", H2),
               Entry(OEBPS \o IMG, "Deflated", Bytes("png")) >>)

\* an EPUB 2 under OEBPS/ whose NCX has the customary id "ncx"
Epub2 ==
    Archive(OEBPS \o <<"content", ".opf">>,
            RawDoc(<<"2.0">>, <<Str("urn:uuid:2")>>, <<Str("T")>>, <<Str("en")>>, <<>>,
                   << ManifestItem(Str("ncx"), TOC_NCX, NCX_MT, None),
                      ManifestItem(Str("ch1"), CH1, XHTML_MT, None) >>,
                   << SpineItem(Str("ch1"), TRUE, None) >>),
            << Entry(OEBPS \o TOC_NCX, "Deflated", NcxDoc(<< NavPoint(Str("One"), CH1, <<>>) >>)),
               Entry(OEBPS \o CH1, "Deflated", H1) >>)

\* the archive write_epub makes of a one-chapter Book
Written ==
    CompleteArchive(WriteEntries(BookWith(SimpleMetadata, Res1(OEBPS \o CH1, H1)),
                                 "u0", "t0", <<OEBPS \o CH1>>))

EditArchives == {Epub3, Epub2, Written}

(***************************************************************************)
(* Read-modify-write commands (meta_edit.rs modify_epub and its callers    *)
(* in main.rs)                                                             *)
(***************************************************************************)
\* the resource keys write_epub makes an entry of
WrittenKeys(res) == {k \in DOMAIN res : IsSome(ResourceZipPath(k))}

RECURSIVE AnOrder(_)
\* one iteration order of a HashMap with these keys
AnOrder(S) ==
    IF S = {} THEN <<>>
    ELSE LET k == CHOOSE x \in S : TRUE IN <<k>> \o AnOrder(S \ {k})

\* writer.rs write_epub as one call: the archives it can leave at the path,
\* by the UUID drawn when the Book has no identifier and the clock read when
\* it has no modification time; or an error when an entry name repeats.
\* read_epub loads the entries after the first into a map, so the order of
\* the resource entries cannot be observed by the next command: one order
\* is followed here, every order and every I/O failure in SpecWrite.
write_epub(book) ==
    { LET es == WriteEntries(book, u, t, AnOrder(WrittenKeys(book.resources)))
      IN  IF FirstDuplicate(es, 1) = 0
          THEN [ok |-> TRUE, archive |-> CompleteArchive(es)]
          ELSE [ok |-> FALSE]
      : u \in IF book.metadata.identifiers = <<>> THEN Uuids ELSE {"u1"},
        t \in IF IsSome(book.metadata.modified) THEN {"t1"} ELSE Times }

Outcome(res, st, book, file) ==
    [result |-> res, started |-> st, book |-> book, disk |-> file]

\* meta_edit.rs modify_epub on the file at the path: the outcomes
\* [result, started, book, disk] of read_epub, modify, write_epub
modify_epub(file, Modify(_)) ==
    LET r == read_epub(file)
    IN  IF ~r.ok THEN {Outcome("err", FALSE, None, file)}
        ELSE UNION {
               IF ~m.ok THEN {Outcome("err", FALSE, None, file)}
               ELSE { IF w.ok THEN Outcome("ok", TRUE, Some(m.book), w.archive)
                      ELSE Outcome("err", TRUE, Some(m.book), file)
                      : w \in write_epub(m.book) }
               : m \in Modify(r.book) }

MaxEdits == 2

\* arguments of the commands
INTRO_MD == MdFile(<<"intro">>, <<Heading(1, <<"Intro">>)>>)
NOTES_MD == MdFile(<<"Notes">>, <<Heading(2, <<"Two">>)>>)

\* <<markdown file, --after, --title>>
ChapterArgs ==
    { <<INTRO_MD, None, None>>,
      <<INTRO_MD, Some(<<"0">>), None>>,
      <<INTRO_MD, Some(<<"zz">>), None>>,
      <<NOTES_MD, Some(Str("ch1")), Some(<<"Intro", "!">>)>>,
      <<NOTES_MD, None, None>> }

ChapterRefs == {<<"0">>, <<"1">>, <<"7">>, Str("ch2"), <<"zz">>, <<"chapter-added-", "intro">>}

Indexes == {0, 1, 2}

IdrefLists ==
    { <<>>, <<Str("ch1")>>, <<Str("ch2"), Str("ch1")>>, <<Str("ch1"), Str("ch1")>>,
      <<Str("ch1"), Str("zz")>>, <<Str("zz")>> }

AssetFiles ==
    { [path |-> <<"img", "/", "a", ".png">>, data |-> Bytes("new")],
      [path |-> <<"b", ".css">>, data |-> Bytes("css")] }

AssetRefs == {IMG, <<"asset-", "a", "-", "png">>, Str("ch1"), CH2, <<"zz">>}

FieldValues ==
    { <<Str("title"), Str("T2")>>, <<Str("subject"), Str("S")>>,
      <<Str("rendition:layout"), Str("v")>> }

FieldNames == {Str("title"), Str("identifier"), Str("rendition:layout")}

TocFiles ==
    { << Link(Str("Two"), CH2, 0), Link(Str("One"), CH1, 1) >>,
      << Link(<<" ", "One">>, CH1, 0) >> }

Depths == {None, Some(1)}

\* one command: the file is replaced by an outcome of modify_epub
Run(c, outcomes) ==
    /\ edits < MaxEdits
    /\ \E o \in outcomes :
         /\ disk' = o.disk
         /\ result' = o.result
         /\ started' = o.started
         /\ edited' = o.book
    /\ prev' = disk
    /\ cmd' = c
    /\ edits' = edits + 1
    /\ UNCHANGED notEditVars

\* main.rs ChapterCommand::Add
ChapterAdd ==
    \E a \in ChapterArgs :
        Run([op |-> "chapter add", md |-> a[1], after |-> a[2], title |-> a[3]],
            modify_epub(disk, LAMBDA b : add_chapter(b, a[1], a[2], a[3])))

\* main.rs ChapterCommand::Remove
ChapterRemove ==
    \E id \in ChapterRefs :
        Run([op |-> "chapter remove", id |-> id],
            modify_epub(disk, LAMBDA b : remove_chapter(b, id)))

\* main.rs ChapterCommand::Reorder
ChapterReorder ==
    \E from \in Indexes, to \in Indexes :
        Run([op |-> "chapter reorder", from |-> from, to |-> to],
            modify_epub(disk, LAMBDA b : reorder_chapter(b, from, to)))

\* main.rs SpineCommand::Reorder
SpineReorder ==
    \E from \in Indexes, to \in Indexes :
        Run([op |-> "spine reorder", from |-> from, to |-> to],
            modify_epub(disk, LAMBDA b : reorder_spine(b, from, to)))

\* main.rs SpineCommand::Set
SpineSet ==
    \E idrefs \in IdrefLists :
        Run([op |-> "spine set", idrefs |-> idrefs],
            modify_epub(disk, LAMBDA b : set_spine_order(b, idrefs)))

\* main.rs AssetCommand::Add
AssetAdd ==
    \E a \in AssetFiles :
        Run([op |-> "asset add", path |-> a.path],
            modify_epub(disk, LAMBDA b : add_asset(b, a.path, None, a.data)))

\* main.rs AssetCommand::Remove
AssetRemove ==
    \E x \in AssetRefs :
        Run([op |-> "asset remove", asset_path |-> x],
            modify_epub(disk, LAMBDA b : remove_asset(b, x)))

\* main.rs MetadataCommand::Set
MetadataSet ==
    \E fv \in FieldValues :
        Run([op |-> "metadata set", field |-> fv[1], value |-> fv[2]],
            modify_epub(disk, LAMBDA b : set_field(b, fv[1], fv[2])))

\* main.rs MetadataCommand::Remove
MetadataRemove ==
    \E f \in FieldNames :
        Run([op |-> "metadata remove", field |-> f],
            modify_epub(disk, LAMBDA b : remove_field(b, f)))

\* main.rs TocCommand::Set
TocSet ==
    \E links \in TocFiles :
        Run([op |-> "toc set", links |-> links],
            modify_epub(disk, LAMBDA b : set_toc_from_markdown(b, links)))

\* main.rs TocCommand::Generate
TocGenerate ==
    \E depth \in Depths :
        Run([op |-> "toc generate", depth |-> depth],
            modify_epub(disk, LAMBDA b : generate_toc(b, depth)))

Init ==
    /\ disk \in EditArchives
    /\ prev = disk
    /\ cmd = [op |-> "none"]
    /\ result = "none"
    /\ started = FALSE
    /\ edited = None
    /\ edits = 0
    /\ WriteIdle
    /\ CycleIdle
    /\ TripIdle
    /\ CallIdle

Next ==
    \/ ChapterAdd
    \/ ChapterRemove
    \/ ChapterReorder
    \/ SpineReorder
    \/ SpineSet
    \/ AssetAdd
    \/ AssetRemove
    \/ MetadataSet
    \/ MetadataRemove
    \/ TocSet
    \/ TocGenerate

Spec == Init /\ [][Next]_vars

(***************************************************************************)
(* One edit cycle on a file: read_epub, write_epub, read_epub              *)
(* (writer.rs test_write_epub_roundtrip, meta_edit.rs modify_epub)         *)
(***************************************************************************)
\* where the package document of the input lives
CycleDirs == {OEBPS, <<"OPS", "/">>, <<"EPUB", "/">>, <<"a", "/", "b", "/">>, <<>>}

\* the content documents and assets of the input, by href
CycleFiles ==
    { << <<CH1, XHTML_MT, H1>> >>,
      << <<CH1, XHTML_MT, H1>>, <<IMG, PNG_MT, Bytes("png")>> >>,
      << <<<<"text", "/", "ch1", ".xhtml">>, XHTML_MT, H2>>, <<CH2, XHTML_MT, H1>> >> }

\* dc:title as it stands in the package document
CycleTitles == { <<"T">>, <<"A", "&", "amp;", "B">>, <<" ", "T", " ">> }

\* <meta property="P">text</meta> elements of the package document
CycleMetas ==
    { <<>>,
      << [property |-> Str("rendition:layout"), text |-> Str("v")] >>,
      << [property |-> <<"a", "&", "amp;", "b">>, text |-> Str("v")] >>,
      << [property |-> Str("k"), text |-> <<"a", "&", "lt;", "b">>],
         [property |-> DCTERMS_MODIFIED, text |-> Str("t0")] >> }

CycleSubjects == { <<>>, << Str("S"), <<"a", "&", "quot;", "b">> >> }

\* an EPUB 3 with its package document in dir
CycleArchive(dir, files, title, metas, subjects) ==
    LET nav == <<"nav", ".xhtml">>
        doc == [RawDoc(<<"3.0">>, <<Str("urn:uuid:1")>>, <<title>>, <<Str("en"), Str("fr")>>, metas,
                       << ManifestItem(Str("nav"), nav, XHTML_MT, Some(NAV_PROP)) >>
                       \o [i \in 1..Len(files) |->
                             ManifestItem(<<"item", DigitTokens[i]>>, files[i][1], files[i][2], None)],
                       [i \in 1..Len(files) |-> SpineItem(<<"item", DigitTokens[i]>>, TRUE, None)])
                EXCEPT !.subjects = subjects]
    IN  Archive(dir \o <<"content", ".opf">>, doc,
                << Entry(dir \o nav, "Deflated", NavDoc(<< NavPoint(Str("One"), files[1][1], <<>>) >>)) >>
                \o [i \in 1..Len(files) |-> Entry(dir \o files[i][1], "Deflated", files[i][3])])

InitCycle ==
    /\ \E dir \in CycleDirs, files \in CycleFiles, title \in CycleTitles,
          metas \in CycleMetas, subjects \in CycleSubjects :
            cE = CycleArchive(dir, files, title, metas, subjects)
    /\ cpc = "read"
    /\ cB1 = ReadFail
    /\ cE2 = [ok |-> FALSE]
    /\ cB2 = ReadFail
    /\ WriteIdle
    /\ EditIdle
    /\ TripIdle
    /\ CallIdle

\* reader.rs read_epub on the input
CycleRead ==
    /\ cpc = "read"
    /\ cB1' = read_epub(cE)
    /\ cpc' = IF cB1'.ok THEN "write" ELSE "failed"
    /\ UNCHANGED <<cE, cE2, cB2>>
    /\ UNCHANGED notCycleVars

\* writer.rs write_epub on the Book read
CycleWrite ==
    /\ cpc = "write"
    /\ cE2' \in write_epub(cB1.book)
    /\ cpc' = IF cE2'.ok THEN "reread" ELSE "failed"
    /\ UNCHANGED <<cE, cB1, cB2>>
    /\ UNCHANGED notCycleVars

\* reader.rs read_epub on the written file
CycleReread ==
    /\ cpc = "reread"
    /\ cB2' = read_epub(cE2.archive)
    /\ cpc' = IF cB2'.ok THEN "done" ELSE "failed"
    /\ UNCHANGED <<cE, cB1, cE2>>
    /\ UNCHANGED notCycleVars

NextCycle ==
    \/ CycleRead
    \/ CycleWrite
    \/ CycleReread

SpecCycle == InitCycle /\ [][NextCycle]_vars

(***************************************************************************)
(* book extract (src/extract).  The directory it writes:                   *)
(*   metadata   metadata.yml: the keys it holds and their values           *)
(*   summary    SUMMARY.md: its list items [indent, text], in order        *)
(*   chapters   chapters/: file name -> the Markdown file                  *)
(*   files      assets/ and styles/: path -> content                       *)
(***************************************************************************)
\* str::split('#').next()
BeforeFragment(href) ==
    LET i == FirstIndex(href, LAMBDA t : t = "#")
    IN  IF i = 0 THEN href ELSE SubSeq(href, 1, i - 1)

\* format!("{index:02}")
TwoDigits(n) == <<DigitTokens[(n \div 10) + 1], DigitTokens[(n % 10) + 1]>>

RECURSIVE find_toc_label(_, _)
\* chapter_org.rs find_toc_label
find_toc_label(toc, href) ==
    IF toc = <<>> THEN None
    ELSE LET point == Head(toc)
             point_href == BeforeFragment(point.href)
             target_href == BeforeFragment(href)
         IN  IF point_href = target_href \/ EndsWith(target_href, point_href)
             THEN Some(point.label)
             ELSE LET l == find_toc_label(point.children, href)
                  IN  IF IsSome(l) THEN l ELSE find_toc_label(Tail(toc), href)

\* chapter_org.rs chapter_filename
chapter_filename(index, book, href) ==
    LET label == find_toc_label(book.navigation.toc, href)
        fname == file_name(href)
        stem == IF fname # <<>> /\ fname[Len(fname)] \in {".xhtml", ".html", ".xml"}
                THEN SubSeq(fname, 1, Len(fname) - 1) ELSE fname
        base_name == IF IsSome(label) THEN slugify(label[1]) ELSE slugify(stem)
        name == IF base_name = <<>> THEN <<"chapter-", DigitTokens[index + 1]>> ELSE base_name
    IN  TwoDigits(index) \o <<"-">> \o name \o <<".md">>

\* html_to_md.rs xhtml_to_markdown: the h1..h6 elements of the document
\* become the ATX headings of the Markdown
xhtml_to_markdown(data) == IF data.kind = "xhtml" THEN data.headings ELSE <<>>

RECURSIVE WrittenChapters(_, _, _)
\* extract/mod.rs lines 234-279, from spine position i on: the chapters
\* written, [href, file, md] each
WrittenChapters(book, opf_dir, i) ==
    IF i > Len(book.spine) THEN <<>>
    ELSE LET m == FirstIndex(book.manifest, LAMBDA it : it.id = book.spine[i].idref)
             rest == WrittenChapters(book, opf_dir, i + 1)
             item == book.manifest[m]
             full_path == opf_dir \o item.href
             res == book.resources
         IN  IF m = 0 THEN rest
             ELSE IF ~Contains(item.media_type, <<"html">>)
                     /\ ~Contains(item.media_type, <<"xml">>) THEN rest
             ELSE IF full_path \notin DOMAIN res \/ ~IsUtf8(res[full_path])
                     \/ res[full_path] = TextData(<<>>) THEN rest
             ELSE << [href |-> item.href,
                      file |-> chapter_filename(i - 1, book, item.href),
                      md |-> [original_file |-> item.href, original_id |-> Some(item.id),
                              spine_index |-> i - 1,
                              headings |-> xhtml_to_markdown(res[full_path])]] >> \o rest

RECURSIVE write_nav_entries(_, _, _)
\* summary.rs write_nav_entries: one list item per navigation point, a link
\* when a written chapter matches its href
write_nav_entries(points, chapter_files, indent) ==
    IF points = <<>> THEN <<>>
    ELSE LET point == Head(points)
             href == BeforeFragment(point.href)
             i == FirstIndex(chapter_files,
                             LAMBDA c : href = c.href \/ EndsWith(c.href, href))
             text == IF i # 0
                     THEN <<"[">> \o point.label \o <<"](", "chapters", "/">>
                          \o chapter_files[i].file \o <<")">>
                     ELSE point.label
         IN  <<[indent |-> indent, text |-> text]>>
             \o write_nav_entries(point.children, chapter_files, indent + 1)
             \o write_nav_entries(Tail(points), chapter_files, indent)

\* summary.rs generate_summary
generate_summary(toc, chapter_files) == write_nav_entries(toc, chapter_files, 0)

\* frontmatter.rs BookMetadataYaml::from_epub_metadata
from_epub_metadata(meta, epub_version, date) ==
    [title |-> IF meta.titles = <<>> THEN None ELSE Some(meta.titles[1]),
     creators |-> meta.creators, identifiers |-> meta.identifiers,
     languages |-> meta.languages, publishers |-> meta.publishers,
     dates |-> meta.dates, description |-> meta.description,
     subjects |-> meta.subjects, rights |-> meta.rights, custom |-> meta.custom,
     epx |-> [k \in {"source_format", "epub_version", "extracted_date"} |->
                 IF k = "source_format" THEN "epub"
                 ELSE IF k = "epub_version" THEN epub_version ELSE date]]

\* frontmatter.rs to_yaml: skip_serializing_if drops a None, an empty Vec
\* and an empty HashMap (all three are <<>> here)
to_yaml(y) == [k \in {f \in DOMAIN y : y[f] # <<>>} |-> y[k]]

\* asset_extract.rs extract_assets lines 215-236: where a manifest item goes
AssetTarget(item) ==
    IF StartsWith(item.media_type, <<"image/">>)
    THEN Some(<<"assets", "/", "images", "/">> \o file_name(item.href))
    ELSE IF item.media_type = CSS_MT
    THEN Some(<<"styles", "/">> \o file_name(item.href))
    ELSE IF Contains(item.media_type, <<"font">>)
            \/ item.media_type = <<"application/vnd.ms-opentype">>
    THEN Some(<<"assets", "/", "fonts", "/">> \o file_name(item.href))
    ELSE None

\* asset_extract.rs extract_assets: path -> content; a later manifest item
\* overwrites an earlier one of the same file name
extract_assets(book, opf_dir) ==
    LET Goes(i, p) == /\ AssetTarget(book.manifest[i]) = Some(p)
                      /\ (opf_dir \o book.manifest[i].href) \in DOMAIN book.resources
        idx == {i \in 1..Len(book.manifest) :
                   /\ IsSome(AssetTarget(book.manifest[i]))
                   /\ Goes(i, AssetTarget(book.manifest[i])[1])}
        paths == {AssetTarget(book.manifest[i])[1] : i \in idx}
    IN  [p \in paths |->
            LET last == CHOOSE i \in idx : Goes(i, p) /\ \A j \in idx : Goes(j, p) => j <= i
            IN  book.resources[opf_dir \o book.manifest[last].href]]

\* extract/mod.rs extract_book: the directories it can write, by the
\* directory detect_opf_dir returns; date is today's date
extract_book(book, date) ==
    { LET written == WrittenChapters(book, opf_dir, 1)
      IN  [metadata |-> to_yaml(from_epub_metadata(book.metadata,
                                                   book.navigation.epub_version, date)),
           summary |-> generate_summary(book.navigation.toc, written),
           chapters |-> [f \in {written[i].file : i \in DOMAIN written} |->
                           written[CHOOSE i \in DOMAIN written : written[i].file = f].md],
           files |-> extract_assets(book, opf_dir)]
      : opf_dir \in OpfDirCandidates(book.resources) }

(***************************************************************************)
(* book assemble (src/assemble)                                            *)
(***************************************************************************)
\* metadata_build.rs read_metadata on the parsed metadata.yml: serde gives a
\* missing key its default
read_metadata(yaml) ==
    LET Get(f) == IF f \in DOMAIN yaml THEN yaml[f] ELSE <<>>
    IN  [titles |-> Get("title"), creators |-> Get("creators"),
         identifiers |-> Get("identifiers"), languages |-> Get("languages"),
         publishers |-> Get("publishers"), dates |-> Get("dates"),
         description |-> Get("description"), subjects |-> Get("subjects"),
         rights |-> Get("rights"), modified |-> None, cover_id |-> None,
         custom |-> Get("custom")]

RECURSIVE ScanLinks(_, _, _, _)
\* the inline links pulldown_cmark finds in the text of a list item: "]("
\* closes the innermost open "[", the destination runs to the next ")" and
\* holds no space, and a link cannot lie inside another link
ScanLinks(t, i, opens, acc) ==
    LET pop == IF opens = <<>> THEN opens ELSE SubSeq(opens, 1, Len(opens) - 1)
        ends == {k \in (i + 1)..Len(t) : t[k] = ")"}
        k == CHOOSE e \in ends : \A f \in ends : e <= f
        dest == SubSeq(t, i + 1, k - 1)
    IN  IF i > Len(t) THEN acc
        ELSE IF t[i] = "[" THEN ScanLinks(t, i + 1, Append(opens, i), acc)
        ELSE IF t[i] = "]" THEN ScanLinks(t, i + 1, pop, acc)
        ELSE IF t[i] = "](" /\ opens # <<>>
        THEN IF ends = {} \/ Contains(dest, <<" ">>)
             THEN ScanLinks(t, i + 1, pop, acc)
             ELSE ScanLinks(t, k + 1, <<>>,
                            Append(acc, [label |-> SubSeq(t, opens[Len(opens)] + 1, i - 1),
                                         href |-> dest]))
        ELSE ScanLinks(t, i + 1, opens, acc)

RECURSIVE SummaryLinks(_)
\* spine_build.rs parse_summary lines 13-47: (label, href, depth) of every
\* link, the depth of a list item being its indentation
SummaryLinks(summary) ==
    IF summary = <<>> THEN <<>>
    ELSE LET found == ScanLinks(Head(summary).text, 1, <<>>, <<>>)
         IN  [i \in 1..Len(found) |->
                 Link(Trim(found[i].label), found[i].href, Head(summary).indent)]
             \o SummaryLinks(Tail(summary))

\* spine_build.rs parse_summary
parse_summary(summary) ==
    LET links == SummaryLinks(summary)
        prefix == <<"chapters", "/">>
    IN  [chapter_order |->
            [i \in 1..Len(links) |->
                IF StartsWith(links[i].href, prefix)
                THEN SubSeq(links[i].href, Len(prefix) + 1, Len(links[i].href))
                ELSE links[i].href],
         navigation |-> Navigation(build_nav_tree(links), "V3")]

\* assemble/mod.rs extract_title: the first level-one heading, else the file
\* name without ".md", "-" turned into " "
extract_title(md, filename) ==
    LET i == FirstIndex(md.headings, LAMBDA h : h.level = 1)
        stem == IF EndsWith(filename, <<".md">>)
                THEN SubSeq(filename, 1, Len(filename) - 1) ELSE filename
    IN  IF i # 0 THEN Trim(md.headings[i].text)
        ELSE Trim([j \in 1..Len(stem) |-> IF stem[j] = "-" THEN " " ELSE stem[j]])

\* assemble/mod.rs lines 77-81: the href of the chapter made of a file
XhtmlHref(chapter_file) ==
    (IF EndsWith(chapter_file, <<".md">>)
     THEN SubSeq(chapter_file, 1, Len(chapter_file) - 1) ELSE chapter_file) \o <<".xhtml">>

\* assemble/mod.rs assemble_book: the outcomes [ok, book], by the order in
\* which read_dir lists styles/ and assets/
assemble_book(t) ==
    LET metadata == read_metadata(t.metadata)
        s == parse_summary(t.summary)
        order == s.chapter_order
        css == {p \in DOMAIN t.files : StartsWith(p, <<"styles", "/">>) /\ EndsWith(p, <<".css">>)}
        assets == {p \in DOMAIN t.files : StartsWith(p, <<"assets", "/">>)}
        Style(p) == ManifestItem(<<"style-">> \o slugify(file_name(p)), p, CSS_MT, None)
        Chapter(i) == ManifestItem(<<"chapter-">> \o TwoDigits(i - 1), XhtmlHref(order[i]),
                                   XHTML_MT, None)
        Asset(p) == ManifestItem(<<"asset-">> \o slugify(p), p, infer_media_type(p), None)
        hrefs == {XhtmlHref(order[i]) : i \in 1..Len(order)}
        File(h) == order[CHOOSE i \in 1..Len(order) : XhtmlHref(order[i]) = h]
        resources == [p \in css \cup assets \cup hrefs |->
                         IF p \in hrefs
                         THEN markdown_to_xhtml(t.chapters[File(p)],
                                                extract_title(t.chapters[File(p)], File(p)))
                         ELSE t.files[p]]
    IN  IF \E i \in 1..Len(order) : order[i] \notin DOMAIN t.chapters THEN {Failed}
        ELSE { Done(EpubBook(metadata,
                             [i \in 1..Len(co) |-> Style(co[i])]
                             \o [i \in 1..Len(order) |-> Chapter(i)]
                             \o [i \in 1..Len(ao) |-> Asset(ao[i])],
                             [i \in 1..Len(order) |->
                                 SpineItem(<<"chapter-">> \o TwoDigits(i - 1), TRUE, None)],
                             s.navigation, resources))
               : co \in Orders(css), ao \in Orders(assets) }

\* package.rs package_epub: the outcomes [ok, archive]
package_epub(t) ==
    UNION { IF b.ok THEN write_epub(b.book) ELSE {[ok |-> FALSE]} : b \in assemble_book(t) }

(***************************************************************************)
(* The round trip: `metadata set` (optional), `book extract`, `book        *)
(* assemble`, read_epub                                                    *)
(***************************************************************************)
CSS == <<"s", ".css">>

\* tables of contents over the spine ch1, ch2: one entry per document, an
\* entry missing, two entries into one document, the reverse order, a nested
\* entry, a label that holds a Markdown link, no entry
TripTocs ==
    { << NavPoint(Str("One"), CH1, <<>>), NavPoint(Str("Two"), CH2, <<>>) >>,
      << NavPoint(Str("One"), CH1, <<>>) >>,
      << NavPoint(Str("One"), CH1, <<>>), NavPoint(Str("Sec"), CH1 \o <<"#", "s2">>, <<>>),
         NavPoint(Str("Two"), CH2, <<>>) >>,
      << NavPoint(Str("Two"), CH2, <<>>), NavPoint(Str("One"), CH1, <<>>) >>,
      << NavPoint(Str("One"), CH1, << NavPoint(Str("Two"), CH2, <<>>) >>) >>,
      << NavPoint(<<"Using", " ", "[", "text", "](", "url", ")", " ", "links">>, CH1, <<>>),
         NavPoint(Str("Two"), CH2, <<>>) >>,
      <<>> }

TripDirs == {OEBPS, <<"OPS", "/">>}

\* a well-formed EPUB under dir: two chapters, an image and a stylesheet,
\* its table of contents in a nav document (3) or an NCX (2)
TripArchive(dir, version, toc) ==
    LET navitem == IF version = 3
                   THEN ManifestItem(Str("nav"), <<"nav", ".xhtml">>, XHTML_MT, Some(NAV_PROP))
                   ELSE ManifestItem(Str("ncx"), <<"book", ".ncx">>, NCX_MT, None)
    IN  Archive(dir \o <<"content", ".opf">>,
                RawDoc(IF version = 3 THEN <<"3.0">> ELSE <<"2.0">>,
                       <<Str("urn:uuid:1")>>, <<Str("T")>>, <<Str("en")>>, <<>>,
                       << navitem,
                          ManifestItem(Str("ch1"), CH1, XHTML_MT, None),
                          ManifestItem(Str("ch2"), CH2, XHTML_MT, None),
                          ManifestItem(Str("img"), IMG, PNG_MT, None),
                          ManifestItem(Str("css"), CSS, CSS_MT, None) >>,
                       << SpineItem(Str("ch1"), TRUE, None), SpineItem(Str("ch2"), TRUE, None) >>),
                << Entry(dir \o navitem.href, "Deflated",
                         IF version = 3 THEN NavDoc(EscapeNav(toc)) ELSE NcxDoc(EscapeNav(toc))),
                   Entry(dir \o CH1, "Deflated", H1),
                   Entry(dir \o CH2, "Deflated", H2),
                   Entry(dir \o IMG, "Deflated", Bytes("png")),
                   Entry(dir \o CSS, "Deflated", TextData(Str("css"))) >>)

\* --field and --value of `metadata set`
TripFields ==
    { <<Str("rendition:layout"), Str("v")>>, <<<<"a", "&", "b">>, Str("v")>>,
      <<DCTERMS_MODIFIED, Str("t0")>>, <<Str("k"), <<" ", "v", " ">>>>, <<Str("k"), <<>>>> }

Dates == {"d1"}

InitTrip ==
    /\ \E dir \in TripDirs, version \in {2, 3}, toc \in TripTocs :
          tE = TripArchive(dir, version, toc)
    /\ tset = None
    /\ tpc = "start"
    /\ tB = ReadFail
    /\ tree = None
    /\ tOut = [ok |-> FALSE]
    /\ tB2 = ReadFail
    /\ WriteIdle
    /\ EditIdle
    /\ CycleIdle
    /\ CallIdle

\* main.rs MetadataCommand::Set on the file, before it is extracted
TripSet ==
    /\ tpc = "start"
    /\ \E fv \in TripFields :
          \E o \in modify_epub(tE, LAMBDA b : set_field(b, fv[1], fv[2])) :
             /\ tE' = o.disk
             /\ tset' = Some([field |-> fv[1], value |-> fv[2]])
             /\ tpc' = IF o.result = "ok" THEN "set" ELSE "failed"
    /\ UNCHANGED <<tB, tree, tOut, tB2>>
    /\ UNCHANGED notTripVars

\* main.rs BookCommand::Extract
TripExtract ==
    /\ tpc \in {"start", "set"}
    /\ tB' = read_epub(tE)
    /\ IF tB'.ok
       THEN /\ \E d \in Dates : \E t \in extract_book(tB'.book, d) : tree' = Some(t)
            /\ tpc' = "extracted"
       ELSE /\ tree' = None
            /\ tpc' = "failed"
    /\ UNCHANGED <<tE, tset, tOut, tB2>>
    /\ UNCHANGED notTripVars

\* main.rs BookCommand::Assemble
TripAssemble ==
    /\ tpc = "extracted"
    /\ tOut' \in package_epub(tree[1])
    /\ tpc' = IF tOut'.ok THEN "assembled" ELSE "failed"
    /\ UNCHANGED <<tE, tset, tB, tree, tB2>>
    /\ UNCHANGED notTripVars

\* reader.rs read_epub on the assembled file
TripRead ==
    /\ tpc = "assembled"
    /\ tB2' = read_epub(tOut.archive)
    /\ tpc' = "done"
    /\ UNCHANGED <<tE, tset, tB, tree, tOut>>
    /\ UNCHANGED notTripVars

NextTrip == TripSet \/ TripExtract \/ TripAssemble \/ TripRead

SpecTrip == InitTrip /\ [][NextTrip]_vars

(***************************************************************************)
(* Claims about write_epub (SpecWrite)                                     *)
(***************************************************************************)
\* C1: during write_epub, failures and crashes included, the file at the path
\* holds its complete previous content until the rename and the complete new
\* archive after it; partial writes only ever reach the temporary file.
C1_AtomicWrite ==
    \A w \in DOMAIN wpc :
        /\ wpc[w] # "done" => FileAt(wpath) = worig
        /\ wpc[w] = "done" => FileAt(wpath) = CompleteArchive(wplan[w])

\* a write that failed half-way: the temporary file holds some of the entries
\* and the target still holds the old archive
C1_Witness ==
    /\ wpc[1] = "failed"
    /\ worig = OldArchive
    /\ FileAt(wpath) = OldArchive
    /\ Len(FileAt(tmp_path(wpath)).entries) \in 2..(Len(wplan[1]) - 1)

\* C7: in every archive write_epub produces, entry 0 is "mimetype", stored,
\* with payload exactly application/epub+zip, and no other entry has that name.
C7_MimetypeFirst ==
    \A w \in DOMAIN wpc :
        wpc[w] = "done" =>
            LET es == FileAt(wpath).entries
            IN  /\ Len(es) >= 1
                /\ es[1] = Entry(MIMETYPE_NAME, "Stored", TextData(MIMETYPE))
                /\ \A i \in 2..Len(es) : es[i].name # MIMETYPE_NAME

\* a finished archive of a Book that holds a resource named "mimetype"
C7_Witness ==
    /\ wpc[1] = "done"
    /\ MIMETYPE_NAME \in DOMAIN wbook[1].resources
    /\ \E i \in 2..Len(FileAt(wpath).entries) :
          FileAt(wpath).entries[i].name = OEBPS \o MIMETYPE_NAME

(***************************************************************************)
(* Claims about the editing commands (Spec)                                *)
(***************************************************************************)
\* the command names a target that the Book does not have
Unresolved(c, book) ==
    LET InSpine(r) == \E i \in 1..Len(book.spine) : book.spine[i].idref = r
        IsIndex(r) == IsSome(ParseUsize(r)) /\ ParseUsize(r)[1] < Len(book.spine)
    IN  CASE c.op = "chapter remove" -> ~IsIndex(c.id) /\ ~InSpine(c.id)
          [] c.op = "asset remove" ->
                \A i \in 1..Len(book.manifest) :
                    book.manifest[i].href # c.asset_path /\ book.manifest[i].id # c.asset_path
          [] c.op = "spine set" -> \E i \in 1..Len(c.idrefs) : ~InSpine(c.idrefs[i])
          [] c.op \in {"chapter reorder", "spine reorder"} ->
                c.from >= Len(book.spine) \/ c.to >= Len(book.spine)
          [] OTHER -> FALSE

\* C2: a command whose target cannot be resolved (chapter remove, asset
\* remove, spine set, chapter/spine reorder) returns an error, never starts
\* write_epub and leaves the file exactly as it was.
C2_UnresolvedLeavesFile ==
    (cmd.op # "none" /\ read_epub(prev).ok /\ Unresolved(cmd, read_epub(prev).book))
        => (result = "err" /\ ~started /\ disk = prev)

\* a spine set naming an unknown idref, run after an edit that succeeded
C2_Witness ==
    /\ edits = 2
    /\ cmd.op = "spine set"
    /\ read_epub(prev).ok
    /\ Unresolved(cmd, read_epub(prev).book)
    /\ Len(read_epub(prev).book.manifest) > 4
    /\ result = "err"

SpineResolves(book) ==
    \A i \in 1..Len(book.spine) :
        \E j \in 1..Len(book.manifest) : book.manifest[j].id = book.spine[i].idref

\* C3: after any sequence of successful editing commands on a Book whose
\* spine idrefs all name manifest items, every spine idref still names a
\* manifest item.
C3_SpineResolves == result = "ok" => SpineResolves(edited[1])

DistinctIds(book) ==
    \A i, j \in 1..Len(book.manifest) :
        i # j => book.manifest[i].id # book.manifest[j].id

\* C4: manifest ids stay pairwise distinct after chapter add and asset add,
\* whatever the titles and file names, and after every write-then-read cycle.
C4_DistinctIds ==
    /\ (result = "ok" /\ cmd.op \in {"chapter add", "asset add"}) => DistinctIds(edited[1])
    /\ read_epub(disk).ok => DistinctIds(read_epub(disk).book)

(***************************************************************************)
(* Claims about the read-write-read cycle (SpecCycle)                      *)
(***************************************************************************)
\* the directory of the package document the container of the file names
OpfDirOf(file) ==
    LET opf_path == EntryByName(file, CONTAINER_PATH)[1].full_path[1]
    IN  SubSeq(opf_path, 1, RFind(opf_path, "/"))

\* every manifest href, resolved against dir, names an entry of the file
HrefsResolve(file, dir, manifest) ==
    \A i \in 1..Len(manifest) : IsSome(EntryByName(file, dir \o manifest[i].href))

\* C5: for a readable EPUB whose manifest hrefs all name entries, whatever
\* its OPF directory and file names, after read_epub, write_epub, read_epub
\* every manifest href resolved against OEBPS/ names an entry of the written
\* archive, with the original bytes for the items of the input.
C5_HrefsSurviveCycle ==
    (cpc = "done" /\ HrefsResolve(cE, OpfDirOf(cE), cB1.book.manifest)) =>
        /\ HrefsResolve(cE2.archive, OEBPS, cB2.book.manifest)
        /\ \A i \in 1..Len(cB1.book.manifest) :
              LET h == cB1.book.manifest[i].href
              IN  /\ \E j \in 1..Len(cB2.book.manifest) : cB2.book.manifest[j].href = h
                  /\ EntryByName(cE2.archive, OEBPS \o h) = EntryByName(cE, OpfDirOf(cE) \o h)

First(s) == IF s = <<>> THEN None ELSE Some(s[1])

\* a readable EPUB with the title, language and identifier EPUB requires
WellFormed(file) ==
    LET r == read_epub(file)
    IN  /\ r.ok
        /\ r.book.metadata.titles # <<>>
        /\ r.book.metadata.languages # <<>>
        /\ r.book.metadata.identifiers # <<>>

\* C6: for a well-formed EPUB E, read_epub(E), write_epub, read_epub yields a
\* Book with the same first title, languages, first identifier, number of
\* spine items, subjects and custom map as the Book read from E.
C6_CycleKeepsMetadata ==
    (cpc = "done" /\ WellFormed(cE)) =>
        LET m1 == cB1.book.metadata
            m2 == cB2.book.metadata
        IN  /\ First(m2.titles) = First(m1.titles)
            /\ m2.languages = m1.languages
            /\ First(m2.identifiers) = First(m1.identifiers)
            /\ Len(cB2.book.spine) = Len(cB1.book.spine)
            /\ m2.subjects = m1.subjects
            /\ m2.custom = m1.custom

(***************************************************************************)
(* Claims about extract and assemble (SpecTrip)                            *)
(***************************************************************************)
\* C8: extraction of a well-formed EPUB followed by assembly of the extracted
\* tree produces an EPUB that is readable and structurally valid: mimetype
\* first, container present, OPF parseable, every spine idref names a
\* manifest item, and a title, a language and an identifier are present.
C8_RoundTripValid ==
    (/\ tpc \in {"done", "failed"} /\ IsSome(tree)
     /\ WellFormed(tE) /\ HrefsResolve(tE, OpfDirOf(tE), tB.book.manifest)) =>
        /\ tpc = "done"
        /\ validate_mimetype(tOut.archive)
        /\ IsSome(EntryByName(tOut.archive, CONTAINER_PATH))
        /\ tB2.ok
        /\ SpineResolves(tB2.book)
        /\ tB2.book.metadata.titles # <<>>
        /\ tB2.book.metadata.languages # <<>>
        /\ tB2.book.metadata.identifiers # <<>>

NamedFields ==
    {Str(f) : f \in {"title", "creator", "author", "language", "publisher", "description",
                     "rights", "identifier", "date", "subject"}}

\* C9: a custom metadata property (a field that is not one of the named
\* fields) set with `metadata set` survives write, read, extract, assemble,
\* read: the reassembled Book's custom map holds the key with the value.
C9_CustomSurvives ==
    (tpc = "done" /\ tB2.ok /\ IsSome(tset) /\ tset[1].field \notin NamedFields) =>
        /\ tset[1].field \in DOMAIN tB2.book.metadata.custom
        /\ tB2.book.metadata.custom[tset[1].field] = tset[1].value

\* C10: after extraction and assembly, whatever the relation between the
\* table of contents and the spine, the reassembled spine has as many items
\* as the original spine, one per original content document (the chapter
\* file of spine position i is named after i), in the original order.
C10_SpineSurvives ==
    (tpc = "done" /\ tB2.ok) =>
        /\ Len(tB2.book.spine) = Len(tB.book.spine)
        /\ \A i \in 1..Len(tB2.book.spine) :
              \E j \in 1..Len(tB2.book.manifest) :
                 /\ tB2.book.manifest[j].id = tB2.book.spine[i].idref
                 /\ StartsWith(tB2.book.manifest[j].href, TwoDigits(i - 1))

(***************************************************************************)
(* XHTML to Markdown (src/extract/html_to_md.rs)                           *)
(*                                                                         *)
(* An XHTML document is a sequence of items: an opening tag with its name  *)
(* and the value of its id attribute (<<>> when it has none), a closing    *)
(* tag, or one token of text.  Markdown is a sequence of text tokens.  The *)
(* placeholder EPXANCHOR__id__ENDEPX is the token "EPXANCHOR__", the       *)
(* tokens of the id and the token "__ENDEPX", whether preprocess_xhtml     *)
(* wrote it or the document's own text holds it: the code keeps both in    *)
(* one String.                                                             *)
(***************************************************************************)
Open(name, id) == [k |-> "open", name |-> name, id |-> id]
Close(name) == [k |-> "close", name |-> name, id |-> <<>>]
Text(t) == [k |-> "text", name |-> t, id |-> <<>>]

\* an opening tag that also carries an epub:type attribute (tattr is the
\* attribute's name as written, tval its value) and an href; the type
\* attribute stands before the id
OpenTyped(name, tattr, tval, id, href) ==
    [k |-> "open", name |-> name, id |-> id, tattr |-> tattr, tval |-> tval, href |-> href]

\* the type attribute of an item, <<>> when it has none
TypeAttr(it) == IF "tattr" \in DOMAIN it THEN <<it.tattr, it.tval>> ELSE <<>>

RECURSIVE Texts(_)
Texts(s) == IF s = <<>> THEN <<>> ELSE <<Text(Head(s))>> \o Texts(Tail(s))

\* format!("EPXANCHOR__{id}__ENDEPX")
Placeholder(id) == <<"EPXANCHOR__">> \o id \o <<"__ENDEPX">>

IsWs(t) == t \in {" ", "\n"}

RECURSIVE StripHead(_, _)
\* html_to_md.rs 37-39: (?is)<head[^>]*>.*?</head> replaced by nothing
StripHead(h, i) ==
    IF i > Len(h) THEN <<>>
    ELSE IF h[i].k = "open" /\ h[i].name = "head"
              /\ \E j \in (i + 1)..Len(h) : h[j].k = "close" /\ h[j].name = "head"
         THEN LET j == CHOOSE j \in (i + 1)..Len(h) :
                          /\ h[j].k = "close" /\ h[j].name = "head"
                          /\ \A m \in (i + 1)..(j - 1) :
                                 ~(h[m].k = "close" /\ h[m].name = "head")
              IN  StripHead(h, j + 1)
         ELSE <<h[i]>> \o StripHead(h, i + 1)

RECURSIVE EmptyAnchors(_, _, _)
\* Step 1a, html_to_md.rs 103-115: <a id="X"> followed by white space only
\* and </a> becomes the placeholder when X is referenced, nothing otherwise
EmptyAnchors(h, i, referenced_ids) ==
    IF i > Len(h) THEN <<>>
    ELSE IF h[i].k = "open" /\ h[i].name = "a" /\ h[i].id # <<>>
              /\ \E j \in (i + 1)..Len(h) :
                     /\ h[j].k = "close" /\ h[j].name = "a"
                     /\ \A m \in (i + 1)..(j - 1) : h[m].k = "text" /\ IsWs(h[m].name)
         THEN LET j == CHOOSE j \in (i + 1)..Len(h) :
                          /\ h[j].k = "close" /\ h[j].name = "a"
                          /\ \A m \in (i + 1)..(j - 1) : h[m].k = "text"
              IN  (IF h[i].id \in referenced_ids
                   THEN Texts(Placeholder(h[i].id)) ELSE <<>>)
                  \o EmptyAnchors(h, j + 1, referenced_ids)
         ELSE <<h[i]>> \o EmptyAnchors(h, i + 1, referenced_ids)

RECURSIVE AnchorIds(_, _)
\* Step 1b, html_to_md.rs 118-132: the id of any other <a> is taken out of
\* the tag; the placeholder goes before the tag when the id is referenced
AnchorIds(h, referenced_ids) ==
    IF h = <<>> THEN <<>>
    ELSE LET it == Head(h)
             rest == AnchorIds(Tail(h), referenced_ids)
         IN  IF it.k = "open" /\ it.name = "a" /\ it.id # <<>>
             THEN (IF it.id \in referenced_ids
                   THEN Texts(Placeholder(it.id)) ELSE <<>>)
                  \o <<[it EXCEPT !.id = <<>>]>> \o rest
             ELSE <<it>> \o rest

RECURSIVE ElementIds(_, _)
\* Step 2, html_to_md.rs 135-154: the id of any element but <a> is taken
\* out of the tag; the placeholder goes after the tag when it is referenced
ElementIds(h, referenced_ids) ==
    IF h = <<>> THEN <<>>
    ELSE LET it == Head(h)
             rest == ElementIds(Tail(h), referenced_ids)
         IN  IF it.k = "open" /\ it.name # "a" /\ it.id # <<>>
             THEN <<[it EXCEPT !.id = <<>>]>>
                  \o (IF it.id \in referenced_ids
                      THEN Texts(Placeholder(it.id)) ELSE <<>>)
                  \o rest
             ELSE <<it>> \o rest

RECURSIVE ReplaceEpub(_)
\* html_to_md.rs 157: html.replace("epub:", "data-epub-"), text included
ReplaceEpub(h) ==
    IF h = <<>> THEN <<>>
    ELSE (IF Head(h).k = "text" /\ Head(h).name = "epub:"
          THEN <<Text("data-epub-")>>
          ELSE IF TypeAttr(Head(h)) # <<>> /\ Head(h).tattr = "epub:type"
          THEN <<[Head(h) EXCEPT !.tattr = "data-epub-type"]>>
          ELSE <<Head(h)>>) \o ReplaceEpub(Tail(h))

\* the text items of h, as strip_html_tags leaves them
RECURSIVE TextOf(_)
TextOf(h) ==
    IF h = <<>> THEN <<>>
    ELSE (IF Head(h).k = "text" THEN <<Head(h).name>> ELSE <<>>) \o TextOf(Tail(h))

\* format!("[^{id}]: {text}") and format!("[^{id}]")
FootnoteDef(id, text) == <<"[^">> \o id \o <<"]: ">> \o text
FootnoteRef(id) == <<"[^">> \o id \o <<"]">>

RECURSIVE FootnoteAsides(_, _)
\* html_to_md.rs 174-186: <aside ... data-epub-type="footnote" ... id="X" ...>
\* up to the next </aside>, on one line, becomes [^X]: and its stripped text
FootnoteAsides(h, i) ==
    IF i > Len(h) THEN <<>>
    ELSE IF /\ h[i].k = "open" /\ h[i].name = "aside"
            /\ TypeAttr(h[i]) = <<"data-epub-type", "footnote">>
            /\ h[i].id # <<>>
            /\ \E j \in (i + 1)..Len(h) :
                   /\ h[j].k = "close" /\ h[j].name = "aside"
                   /\ \A m \in (i + 1)..(j - 1) : ~(h[m].k = "text" /\ h[m].name = "\n")
         THEN LET j == CHOOSE j \in (i + 1)..Len(h) :
                          /\ h[j].k = "close" /\ h[j].name = "aside"
                          /\ \A m \in (i + 1)..(j - 1) :
                                 ~(h[m].k = "close" /\ h[m].name = "aside")
              IN  Texts(FootnoteDef(h[i].id, Trim(TextOf(SubSeq(h, i + 1, j - 1)))))
                  \o FootnoteAsides(h, j + 1)
         ELSE <<h[i]>> \o FootnoteAsides(h, i + 1)

RECURSIVE NoteRefs(_, _)
\* html_to_md.rs 189-198: <a ... data-epub-type="noteref" ... href="#X" ...>,
\* text, </a> becomes [^X]
NoteRefs(h, i) ==
    IF i > Len(h) THEN <<>>
    ELSE IF /\ h[i].k = "open" /\ h[i].name = "a"
            /\ TypeAttr(h[i]) = <<"data-epub-type", "noteref">>
            /\ h[i].href # <<>> /\ Head(h[i].href) = "#"
            /\ \E j \in (i + 1)..Len(h) :
                   /\ h[j].k = "close" /\ h[j].name = "a"
                   /\ \A m \in (i + 1)..(j - 1) : h[m].k = "text"
         THEN LET j == CHOOSE j \in (i + 1)..Len(h) :
                          /\ h[j].k = "close" /\ h[j].name = "a"
                          /\ \A m \in (i + 1)..(j - 1) : h[m].k = "text"
              IN  Texts(FootnoteRef(Tail(h[i].href))) \o NoteRefs(h, j + 1)
         ELSE <<h[i]>> \o NoteRefs(h, i + 1)

\* the anchor passes and the namespace pass, html_to_md.rs 37-157
AnchorPasses(xhtml, referenced_ids) ==
    ReplaceEpub(ElementIds(AnchorIds(EmptyAnchors(StripHead(xhtml, 1), 1,
                                                  referenced_ids),
                                     referenced_ids),
                           referenced_ids))

\* html_to_md.rs 21-201.  The documents modelled hold no XML declaration,
\* <svg>, <img> or asset path, the only things the other passes of the
\* function rewrite (the path rewriting is followed on its own).
preprocess_xhtml(xhtml, referenced_ids) ==
    NoteRefs(FootnoteAsides(AnchorPasses(xhtml, referenced_ids), 1), 1)

Blocks == {"h2", "p", "div", "blockquote"}

RECURSIVE ConvertItems(_)
\* html_to_markdown_rs::convert on the elements modelled: text is copied, a
\* heading is "## " and its text, <b> is "**", a block is set off by blank
\* lines, every other tag is dropped
ConvertItems(h) ==
    IF h = <<>> THEN <<>>
    ELSE LET it == Head(h)
             rest == ConvertItems(Tail(h))
         IN  CASE it.k = "text" -> <<it.name>> \o rest
               [] it.k = "open" /\ it.name = "h2" -> <<"\n", "\n", "##", " ">> \o rest
               [] it.k = "open" /\ it.name \in Blocks \ {"h2"} -> <<"\n", "\n">> \o rest
               [] it.k = "close" /\ it.name \in Blocks -> <<"\n", "\n">> \o rest
               [] it.name = "b" -> <<"**">> \o rest
               [] OTHER -> rest

RECURSIVE SkipWs(_)
SkipWs(s) == IF s # <<>> /\ IsWs(Head(s)) THEN SkipWs(Tail(s)) ELSE s

\* html_to_md.rs 16: convert(&preprocessed, None).unwrap_or_default()
convert(h) == SkipWs(ConvertItems(h))

\* format!("{{{{EPX_ID:{id}}}}}")
EpxId(id) == <<"{{EPX_ID:">> \o id \o <<"}", "}">>

\* format!("{{#{id}}}") and format!("[]{{#{id}}}")
HeadingAttr(id) == <<"{#">> \o id \o <<"}">>
InlineSpan(id) == <<"[]">> \o HeadingAttr(id)

\* the least index from i on that holds token t, 0 when there is none
IndexFrom(s, i, t) ==
    IF \E j \in i..Len(s) : s[j] = t
    THEN CHOOSE j \in i..Len(s) : s[j] = t /\ \A m \in i..(j - 1) : s[m] # t
    ELSE 0

\* \{\{EPX_ID:([^}]+)\}\} matched at i: the index of its last token, else 0
EpxIdEnd(s, i) ==
    IF i > Len(s) \/ s[i] # "{{EPX_ID:" THEN 0
    ELSE LET j == IndexFrom(s, i + 1, "}")
         IN  IF j >= i + 2 /\ j + 1 <= Len(s) /\ s[j + 1] = "}" THEN j + 1 ELSE 0

\* the id of the match of EpxIdEnd at i
EpxIdAt(s, i) == SubSeq(s, i + 1, EpxIdEnd(s, i) - 2)

\* the index of the last token of the line that holds position i
LineEnd(s, i) ==
    LET j == IndexFrom(s, i, "\n") IN IF j = 0 THEN Len(s) ELSE j - 1

AtLineStart(s, i) == i = 1 \/ s[i - 1] = "\n"

RECURSIVE WsEnd(_, _)
\* the index after the run of white space that starts at i
WsEnd(s, i) == IF i <= Len(s) /\ IsWs(s[i]) THEN WsEnd(s, i + 1) ELSE i

\* #{1,6}\s+.+$ matched at i: the index of its last token, else 0
HeadingEnd(s, i) ==
    IF i > Len(s) \/ s[i] # "##" THEN 0
    ELSE LET t == WsEnd(s, i + 1)
         IN  IF t > i + 1 /\ t <= Len(s) THEN LineEnd(s, t) ELSE 0

RECURSIVE RestorePlaceholders(_, _)
\* Step 1, html_to_md.rs 211-217: EPXANCHOR__(.+?)__ENDEPX
RestorePlaceholders(s, i) ==
    IF i > Len(s) THEN <<>>
    ELSE LET j == IndexFrom(s, i + 2, "__ENDEPX")
         IN  IF s[i] = "EPXANCHOR__" /\ j # 0
                /\ \A m \in (i + 1)..(j - 1) : s[m] # "\n"
             THEN EpxId(SubSeq(s, i + 1, j - 1)) \o RestorePlaceholders(s, j + 1)
             ELSE <<s[i]>> \o RestorePlaceholders(s, i + 1)

RECURSIVE LiftFromBold(_, _)
\* Step 2, html_to_md.rs 221-231: \*\*\{\{EPX_ID:([^}]+)\}\}([^*]*)\*\*
LiftFromBold(s, i) ==
    IF i > Len(s) THEN <<>>
    ELSE LET e == EpxIdEnd(s, i + 1)
             k == IF e = 0 THEN 0 ELSE IndexFrom(s, e + 1, "**")
         IN  IF s[i] = "**" /\ e # 0 /\ k # 0
             THEN LET text == SubSeq(s, e + 1, k - 1)
                  IN  EpxId(EpxIdAt(s, i + 1))
                      \o (IF text = <<>> THEN <<>> ELSE <<"**">> \o text \o <<"**">>)
                      \o LiftFromBold(s, k + 1)
             ELSE <<s[i]>> \o LiftFromBold(s, i + 1)

RECURSIVE HeadingInline(_, _)
\* Step 3, html_to_md.rs 236-245: ^(\{\{EPX_ID:[^}]+\}\})(#{1,6}\s+.+)$
HeadingInline(s, i) ==
    IF i > Len(s) THEN <<>>
    ELSE LET e == EpxIdEnd(s, i)
             h == IF e = 0 THEN 0 ELSE HeadingEnd(s, e + 1)
         IN  IF AtLineStart(s, i) /\ e # 0 /\ h # 0
             THEN SubSeq(s, e + 1, h) \o <<"<<PENDING:">> \o SubSeq(s, i, e)
                  \o <<">>">> \o HeadingInline(s, h + 1)
             ELSE <<s[i]>> \o HeadingInline(s, i + 1)

\* the first index in i..e where \{\{EPX_ID:([^}]+)\}\} matches inside the
\* line that ends at e, else 0
FirstEpxId(s, i, e) ==
    LET Ok(j) == EpxIdEnd(s, j) # 0 /\ EpxIdEnd(s, j) <= e
    IN  IF \E j \in i..e : Ok(j)
        THEN CHOOSE j \in i..e : Ok(j) /\ \A m \in i..(j - 1) : ~Ok(m)
        ELSE 0

RECURSIVE HeadingContains(_, _)
\* Step 3, html_to_md.rs 247-258:
\* ^(#{1,6}\s+)(.*?)\{\{EPX_ID:([^}]+)\}\}(.*)$
HeadingContains(s, i) ==
    IF i > Len(s) THEN <<>>
    ELSE LET t == WsEnd(s, i + 1)
             e == LineEnd(s, t)
             a == FirstEpxId(s, t, e)
         IN  IF AtLineStart(s, i) /\ s[i] = "##" /\ t > i + 1 /\ a # 0
             THEN LET z == EpxIdEnd(s, a)
                      text == Trim(SubSeq(s, t, a - 1) \o SubSeq(s, z + 1, e))
                  IN  SubSeq(s, i, t - 1) \o text \o <<" ">>
                      \o HeadingAttr(EpxIdAt(s, a)) \o HeadingContains(s, e + 1)
             ELSE <<s[i]>> \o HeadingContains(s, i + 1)

RECURSIVE ResolvePending(_, _)
\* html_to_md.rs 261-269:
\* ^(#{1,6}\s+.+?)<<PENDING:\{\{EPX_ID:([^}]+)\}\}>>$
ResolvePending(s, i) ==
    IF i > Len(s) THEN <<>>
    ELSE LET e == HeadingEnd(s, i)
             p == IF e = 0 THEN 0 ELSE IndexFrom(s, i + 3, "<<PENDING:")
             z == IF p = 0 THEN 0 ELSE EpxIdEnd(s, p + 1)
         IN  IF AtLineStart(s, i) /\ e # 0 /\ p # 0 /\ z # 0 /\ z + 1 = e
                /\ s[e] = ">>"
             THEN SubSeq(s, i, p - 1) \o <<" ">> \o HeadingAttr(EpxIdAt(s, p + 1))
                  \o ResolvePending(s, e + 1)
             ELSE <<s[i]>> \o ResolvePending(s, i + 1)

RECURSIVE AnchorsBlock(_, _)
\* (?:\{\{EPX_ID:[^}]+\}\}\s*)+ from i on: the ids of the anchors and the
\* index after the last anchor, <<ids, next>>
AnchorsBlock(s, i) ==
    IF EpxIdEnd(s, i) = 0 THEN <<<<>>, i>>
    ELSE LET z == EpxIdEnd(s, i)
             more == AnchorsBlock(s, WsEnd(s, z + 1))
         IN  IF more[1] = <<>> THEN <<<<EpxIdAt(s, i)>>, z + 1>>
             ELSE <<<<EpxIdAt(s, i)>> \o more[1], more[2]>>

RECURSIVE ExtraSpans(_)
ExtraSpans(ids) ==
    IF ids = <<>> THEN <<>> ELSE InlineSpan(Head(ids)) \o <<"\n">> \o ExtraSpans(Tail(ids))

RECURSIVE PreHeading(_, _)
\* Step 3b, html_to_md.rs 274-296:
\* ((?:\{\{EPX_ID:[^}]+\}\}\s*)+)\n\n(#{1,6}\s+.+)$
PreHeading(s, i) ==
    IF i > Len(s) THEN <<>>
    ELSE LET blk == AnchorsBlock(s, i)
             w == WsEnd(s, blk[2])
             h == HeadingEnd(s, w)
         IN  IF blk[1] # <<>> /\ w >= blk[2] + 2 /\ s[w - 1] = "\n" /\ s[w - 2] = "\n"
                /\ h # 0
             THEN ExtraSpans(Tail(blk[1])) \o SubSeq(s, w, h) \o <<" ">>
                  \o HeadingAttr(Head(blk[1])) \o PreHeading(s, h + 1)
             ELSE <<s[i]>> \o PreHeading(s, i + 1)

RECURSIVE RemainingSpans(_, _)
\* Step 4, html_to_md.rs 299-305: \{\{EPX_ID:([^}]+)\}\}
RemainingSpans(s, i) ==
    IF i > Len(s) THEN <<>>
    ELSE IF EpxIdEnd(s, i) # 0
         THEN InlineSpan(EpxIdAt(s, i)) \o RemainingSpans(s, EpxIdEnd(s, i) + 1)
         ELSE <<s[i]>> \o RemainingSpans(s, i + 1)

RECURSIVE CleanBlankLines(_, _)
\* Step 5, html_to_md.rs 308-309: \n{3,} becomes \n\n (run counts the
\* line feeds just copied)
CleanBlankLines(s, run) ==
    IF s = <<>> THEN <<>>
    ELSE IF Head(s) = "\n"
         THEN (IF run >= 2 THEN <<>> ELSE <<"\n">>) \o CleanBlankLines(Tail(s), run + 1)
         ELSE <<Head(s)>> \o CleanBlankLines(Tail(s), 0)

RECURSIVE TrimLineEnds(_)
\* html_to_md.rs 312-316: every line loses its trailing white space
TrimLineEnds(s) ==
    IF s = <<>> THEN <<>>
    ELSE LET rest == TrimLineEnds(Tail(s))
         IN  IF Head(s) = " " /\ (rest = <<>> \/ Head(rest) = "\n") THEN rest
             ELSE <<Head(s)>> \o rest

RECURSIVE TrimEndWs(_)
TrimEndWs(s) ==
    IF s # <<>> /\ IsWs(s[Len(s)]) THEN TrimEndWs(SubSeq(s, 1, Len(s) - 1)) ELSE s

\* html_to_md.rs 207-324
postprocess_markdown(md) ==
    LET s1 == RestorePlaceholders(md, 1)
        s2 == LiftFromBold(s1, 1)
        s3 == ResolvePending(HeadingContains(HeadingInline(s2, 1), 1), 1)
        s4 == RemainingSpans(PreHeading(s3, 1), 1)
    IN  TrimEndWs(TrimLineEnds(CleanBlankLines(s4, 0))) \o <<"\n">>

\* html_to_md.rs 10-19 with an empty path_map
xhtml_to_markdown_refs(xhtml, referenced_ids) ==
    postprocess_markdown(convert(preprocess_xhtml(xhtml, referenced_ids)))

(***************************************************************************)
(* One call of xhtml_to_markdown, stage by stage                           *)
(***************************************************************************)
MaxPieces == 3

\* the ids of the documents; `a}b` is an id that holds a closing brace
Ids == {<<"x">>, <<"y">>, <<"a", "}", "b">>}

\* <a id=..></a>
EmptyAnchor(id) == <<Open("a", id), Close("a")>>

\* <p><a id=..>T</a></p>
TextAnchor(id) == <<Open("p", <<>>), Open("a", id), Text("T"), Close("a"), Close("p")>>

\* <h2 id=..>T</h2>, and <h2>T</h2> when id is <<>>
HeadingElem(id) == <<Open("h2", id), Text("T"), Close("h2")>>

\* <p id=..>T</p>, and <p>T</p> when id is <<>>
Para(id) == <<Open("p", id), Text("T"), Close("p")>>

\* <p><b><span id=..>T</span></b></p>
BoldSpan(id) ==
    <<Open("p", <<>>), Open("b", <<>>), Open("span", id), Text("T"), Close("span"),
      Close("b"), Close("p")>>

\* <p>EPXANCHOR__x__ENDEPX</p>: a paragraph whose text is a placeholder
PlaceholderText == <<Open("p", <<>>)>> \o Texts(Placeholder(<<"x">>)) \o <<Close("p")>>

\* <head><title id="x">T</title></head>
HeadSection ==
    <<Open("head", <<>>), Open("title", <<"x">>), Text("T"), Close("title"),
      Close("head")>>

Pieces ==
    {EmptyAnchor(id) : id \in Ids} \cup {TextAnchor(id) : id \in {<<"x">>}}
    \cup {HeadingElem(id) : id \in {<<>>, <<"y">>}} \cup {Para(id) : id \in {<<>>, <<"x">>}}
    \cup {BoldSpan(id) : id \in {<<"y">>}} \cup {PlaceholderText, HeadSection}

RECURSIVE Documents(_)
Documents(n) ==
    IF n = 0 THEN {<<>>}
    ELSE Documents(n - 1) \cup {d \o p : d \in Documents(n - 1), p \in Pieces}

InitMd ==
    /\ WriteIdle
    /\ EditIdle
    /\ CycleIdle
    /\ TripIdle
    /\ \E xhtml \in Documents(MaxPieces), referenced_ids \in SUBSET Ids :
           fIn = [xhtml |-> xhtml, referenced_ids |-> referenced_ids]
    /\ fpc = "md_start"
    /\ fMid = <<>>
    /\ fOut = <<>>

MdPreprocess ==
    /\ fpc = "md_start"
    /\ fMid' = <<preprocess_xhtml(fIn.xhtml, fIn.referenced_ids)>>
    /\ fpc' = "md_preprocessed"
    /\ UNCHANGED <<fIn, fOut>>
    /\ UNCHANGED notCallVars

MdConvert ==
    /\ fpc = "md_preprocessed"
    /\ fMid' = Append(fMid, convert(fMid[1]))
    /\ fpc' = "md_converted"
    /\ UNCHANGED <<fIn, fOut>>
    /\ UNCHANGED notCallVars

MdPostprocess ==
    /\ fpc = "md_converted"
    /\ fOut' = postprocess_markdown(fMid[2])
    /\ fpc' = "md_done"
    /\ UNCHANGED <<fIn, fMid>>
    /\ UNCHANGED notCallVars

NextMd == MdPreprocess \/ MdConvert \/ MdPostprocess

SpecMd == InitMd /\ [][NextMd]_vars

(***************************************************************************)
(* Anchors of the Markdown that xhtml_to_markdown returns                  *)
(***************************************************************************)
\* the ids that stand in md as {#id}, the form of a heading attribute and,
\* after [], of an inline span
OutputAnchors(md) ==
    {SubSeq(md, i + 1, IndexFrom(md, i + 1, "}") - 1) :
        i \in {j \in 1..Len(md) : md[j] = "{#" /\ IndexFrom(md, j + 1, "}") # 0}}

\* C11: every id that the output of xhtml_to_markdown holds as a heading
\* attribute {#id} or an inline span []{#id} is a member of referenced_ids,
\* so with an empty referenced_ids the output holds no anchor at all.
C11_OnlyReferencedAnchors ==
    fpc = "md_done" => OutputAnchors(fOut) \subseteq fIn.referenced_ids

\* C12: the output of xhtml_to_markdown holds neither EPXANCHOR nor
\* {{EPX_ID: -- every placeholder ends as Pandoc syntax.
C12_NoTokenLeaks ==
    fpc = "md_done" =>
        \A i \in 1..Len(fOut) : fOut[i] \notin {"EPXANCHOR__", "{{EPX_ID:"}

(***************************************************************************)
(* write_epub and read_epub on a Book that holds a markup character        *)
(* (writer.rs generate_opf / xml_escape, opf.rs parse_opf)                 *)
(***************************************************************************)
\* a&b, a<b, a>b, a"b
Specials == {<<"a", c, "b">> : c \in {"&", "<", ">", "\""}}

\* a Book with a plain value in every field the writer puts into the OPF
PlainBook ==
    EpubBook([identifiers |-> <<Str("urn:uuid:1")>>, titles |-> <<Str("T")>>,
              languages |-> <<Str("en")>>, creators |-> <<Str("A")>>,
              publishers |-> <<Str("P")>>, dates |-> <<Str("2020")>>,
              description |-> Some(Str("D")), subjects |-> <<Str("S")>>,
              rights |-> Some(Str("R")), modified |-> Some(Str("t0")),
              cover_id |-> None, custom |-> [k \in {Str("k")} |-> Str("v")]],
             <<ManifestItem(Str("ch1"), CH1, XHTML_MT, Some(Str("scripted")))>>,
             <<SpineItem(Str("ch1"), TRUE, None)>>,
             Navigation(<<NavPoint(Str("One"), CH1, <<>>)>>, "V3"),
             Res1(OEBPS \o CH1, H1))

OpfFields ==
    {"identifiers", "titles", "languages", "creators", "publishers", "dates",
     "description", "subjects", "rights", "modified", "custom key", "custom value",
     "id", "href", "media_type", "properties"}

\* the fields whose value the writer puts inside an attribute as it is: a
\* quotation mark there ends the attribute early, and what the XML reader
\* makes of the rest of the tag is not modelled
RawAttributes == {"id", "properties"}

\* PlainBook with value v in field f; "id" is the id of the manifest item
\* and the idref of the spine item that names it
WithField(f, v) ==
    LET b == PlainBook
        m == b.metadata
        it == b.manifest[1]
        Md(x) == [b EXCEPT !.metadata = x]
        Item(x) == [b EXCEPT !.manifest = <<x>>]
    IN  CASE f = "identifiers" -> Md([m EXCEPT !.identifiers = <<v>>])
          [] f = "titles" -> Md([m EXCEPT !.titles = <<v>>])
          [] f = "languages" -> Md([m EXCEPT !.languages = <<v>>])
          [] f = "creators" -> Md([m EXCEPT !.creators = <<v>>])
          [] f = "publishers" -> Md([m EXCEPT !.publishers = <<v>>])
          [] f = "dates" -> Md([m EXCEPT !.dates = <<v>>])
          [] f = "description" -> Md([m EXCEPT !.description = Some(v)])
          [] f = "subjects" -> Md([m EXCEPT !.subjects = <<v>>])
          [] f = "rights" -> Md([m EXCEPT !.rights = Some(v)])
          [] f = "modified" -> Md([m EXCEPT !.modified = Some(v)])
          [] f = "custom key" -> Md([m EXCEPT !.custom = [k \in {v} |-> Str("v")]])
          [] f = "custom value" -> Md([m EXCEPT !.custom = [k \in {Str("k")} |-> v]])
          [] f = "id" -> [b EXCEPT !.manifest = <<[it EXCEPT !.id = v]>>,
                                   !.spine = <<SpineItem(v, TRUE, None)>>]
          [] f = "href" -> [b EXCEPT !.manifest = <<[it EXCEPT !.href = v]>>,
                                     !.resources = Res1(OEBPS \o v, H1)]
          [] f = "media_type" -> Item([it EXCEPT !.media_type = v])
          [] f = "properties" -> Item([it EXCEPT !.properties = Some(v)])

InitOpf ==
    /\ WriteIdle
    /\ EditIdle
    /\ CycleIdle
    /\ TripIdle
    /\ \E f \in OpfFields, v \in Specials :
           /\ f \in RawAttributes => v # <<"a", "\"", "b">>
           /\ fIn = [field |-> f, value |-> v, book |-> WithField(f, v)]
    /\ fpc = "opf_start"
    /\ fMid = <<>>
    /\ fOut = <<>>

\* writer.rs write_epub
OpfWrite ==
    /\ fpc = "opf_start"
    /\ \E w \in write_epub(fIn.book) : fMid' = <<w>>
    /\ fpc' = "opf_written"
    /\ UNCHANGED <<fIn, fOut>>
    /\ UNCHANGED notCallVars

\* reader.rs read_epub on the file just written
OpfRead ==
    /\ fpc = "opf_written"
    /\ fOut' = IF fMid[1].ok THEN read_epub(fMid[1].archive) ELSE ReadFail
    /\ fpc' = "opf_done"
    /\ UNCHANGED <<fIn, fMid>>
    /\ UNCHANGED notCallVars

NextOpf == OpfWrite \/ OpfRead

SpecOpf == InitOpf /\ [][NextOpf]_vars

\* the package document of a written archive
WrittenOpf(file) == EntryByName(file, OEBPS \o <<"content", ".opf">>)[1].doc

\* every value of the Book stands XML-escaped in the package document doc
EscapedIn(doc, book) ==
    LET m == book.metadata
        Esc(s) == [i \in 1..Len(s) |-> xml_escape(s[i])]
        keys == SortedKeys(DOMAIN m.custom)
    IN  /\ doc.identifiers = Esc(m.identifiers)
        /\ doc.titles = Esc(m.titles)
        /\ doc.languages = Esc(m.languages)
        /\ doc.creators = Esc(m.creators)
        /\ doc.publishers = Esc(m.publishers)
        /\ doc.dates = Esc(m.dates)
        /\ doc.description = Esc(m.description)
        /\ doc.subjects = Esc(m.subjects)
        /\ doc.rights = Esc(m.rights)
        /\ doc.metas[1].text = xml_escape(m.modified[1])
        /\ \A i \in 1..Len(keys) :
               /\ doc.metas[i + 1].property = xml_escape(keys[i])
               /\ doc.metas[i + 1].text = xml_escape(m.custom[keys[i]])
        /\ \A i \in 1..Len(book.manifest) :
               \E j \in 1..Len(doc.manifest) :
                   /\ doc.manifest[j].id = xml_escape(book.manifest[i].id)
                   /\ doc.manifest[j].href = xml_escape(book.manifest[i].href)
                   /\ doc.manifest[j].media_type = xml_escape(book.manifest[i].media_type)
                   /\ doc.manifest[j].properties = Esc(book.manifest[i].properties)
        /\ \A i \in 1..Len(book.spine) :
               doc.spine[i].idref = xml_escape(book.spine[i].idref)

\* the Book read back holds every value of the Book written
ReadBack(read, book) ==
    /\ read.metadata = book.metadata
    /\ \A i \in 1..Len(book.manifest) :
           \E j \in 1..Len(read.manifest) : read.manifest[j] = book.manifest[i]
    /\ Len(read.spine) = Len(book.spine)
    /\ \A i \in 1..Len(book.spine) : read.spine[i].idref = book.spine[i].idref

\* C13: every text value the writer puts into the OPF is XML-escaped for
\* & < > and ", so a Book that holds such a character in one of these fields
\* is written to a well-formed OPF and read_epub returns the same values.
C13_EscapedAndReadBack ==
    fpc = "opf_done" =>
        /\ fMid[1].ok
        /\ EscapedIn(WrittenOpf(fMid[1].archive), fIn.book)
        /\ fOut.ok
        /\ ReadBack(fOut.book, fIn.book)

(***************************************************************************)
(* Two runs of write_epub on one Book (writer.rs write_epub)               *)
(***************************************************************************)
\* writer.rs 9-70 as one call: the archives a run can leave, by the UUID
\* drawn when the Book has no identifier, the clock read when it has no
\* modification time, and the order in which `for (path_key, data) in
\* &book.resources` visits the HashMap (std's RandomState seeds every map
\* anew, so equal maps are not visited in one order)
write_epub_runs(book) ==
    { IF FirstDuplicate(WriteEntries(book, u, t, o), 1) = 0
      THEN [ok |-> TRUE, archive |-> CompleteArchive(WriteEntries(book, u, t, o))]
      ELSE [ok |-> FALSE]
      : u \in (IF book.metadata.identifiers = <<>> THEN Uuids ELSE {"u1"}),
        t \in (IF IsSome(book.metadata.modified) THEN {"t1"} ELSE Times),
        o \in Orders(DOMAIN book.resources) }

StampedMetadata == [SimpleMetadata EXCEPT !.modified = Some(Str("t0"))]

\* Books with no, one, two and three resources; with and without an
\* identifier and a modification time; with two custom properties
TwiceBooks ==
    { EpubBook(StampedMetadata, <<>>, <<>>, Navigation(<<>>, "V3"), EmptyMap),
      BookWith(StampedMetadata, Res1(OEBPS \o CH1, H1)),
      BookWith([StampedMetadata EXCEPT
                    !.custom = [k \in {Str("a"), Str("b")} |-> Str("v")]],
               Res3(CH1, H1, CH2, H2, IMG, Bytes("png"))),
      BookWith(StampedMetadata, Res2(OEBPS \o CH1, H1, OEBPS \o CH2, H2)),
      BookWith(StampedMetadata,
               Res3(OEBPS \o CH1, H1, OEBPS \o CH2, H2, OEBPS \o IMG, Bytes("png"))),
      BookWith(StampedMetadata,
               Res2(OEBPS \o CH1, H1, OEBPS \o <<"content", ".opf">>, Bytes("o"))),
      BookWith(EmptyMetadata, Res2(OEBPS \o CH1, H1, OEBPS \o CH2, H2)) }

InitTwice ==
    /\ WriteIdle
    /\ EditIdle
    /\ CycleIdle
    /\ TripIdle
    /\ fIn \in TwiceBooks
    /\ fpc = "twice_start"
    /\ fMid = <<>>
    /\ fOut = <<>>

\* the first run of write_epub(&book, path)
TwiceFirst ==
    /\ fpc = "twice_start"
    /\ \E w \in write_epub_runs(fIn) : fMid' = <<w>>
    /\ fpc' = "twice_first"
    /\ UNCHANGED <<fIn, fOut>>
    /\ UNCHANGED notCallVars

\* the second run, on an equal Book
TwiceSecond ==
    /\ fpc = "twice_first"
    /\ \E w \in write_epub_runs(fIn) : fOut' = <<w>>
    /\ fpc' = "twice_done"
    /\ UNCHANGED <<fIn, fMid>>
    /\ UNCHANGED notCallVars

NextTwice == TwiceFirst \/ TwiceSecond

SpecTwice == InitTwice /\ [][NextTwice]_vars

\* C14: write_epub is deterministic: two runs on equal Books that hold an
\* identifier and a modification time leave archives with the same entries
\* in the same order with the same content, whatever order the resources
\* and custom-metadata maps are visited in.
C14_SameArchiveTwice ==
    (fpc = "twice_done" /\ fIn.metadata.identifiers # <<>> /\ IsSome(fIn.metadata.modified))
        => fOut = fMid

(***************************************************************************)
(* Relative paths inside the archive (src/extract/asset_extract.rs)        *)
(***************************************************************************)
RECURSIVE SplitSlash(_, _)
\* str::split('/'): the segments of s, cur being the segment in progress
SplitSlash(s, cur) ==
    IF s = <<>> THEN <<cur>>
    ELSE IF Head(s) = "/" THEN <<cur>> \o SplitSlash(Tail(s), <<>>)
         ELSE SplitSlash(Tail(s), Append(cur, Head(s)))

RECURSIVE TrimEndSlashes(_)
\* str::trim_end_matches('/')
TrimEndSlashes(s) ==
    IF s # <<>> /\ s[Len(s)] = "/" THEN TrimEndSlashes(SubSeq(s, 1, Len(s) - 1)) ELSE s

RECURSIVE CommonPrefix(_, _)
\* from_parts.iter().zip(to_parts.iter()).take_while(|(a, b)| a == b).count()
CommonPrefix(a, b) ==
    IF a # <<>> /\ b # <<>> /\ Head(a) = Head(b) THEN 1 + CommonPrefix(Tail(a), Tail(b))
    ELSE 0

RECURSIVE JoinSlash(_)
\* [&str]::join("/")
JoinSlash(parts) ==
    IF parts = <<>> THEN <<>>
    ELSE IF Len(parts) = 1 THEN parts[1]
    ELSE parts[1] \o <<"/">> \o JoinSlash(Tail(parts))

RECURSIVE Ups(_)
Ups(n) == IF n = 0 THEN <<>> ELSE <<"..", "/">> \o Ups(n - 1)

\* asset_extract.rs 108-144: Option<String>
relative_path(from_dir, to_path) ==
    IF StartsWith(to_path, from_dir)
       /\ SubSeq(to_path, Len(from_dir) + 1, Len(to_path)) # to_path
    THEN Some(SubSeq(to_path, Len(from_dir) + 1, Len(to_path)))
    ELSE LET from_parts == IF from_dir = <<>> THEN <<>>
                           ELSE SplitSlash(TrimEndSlashes(from_dir), <<>>)
             to_parts == SplitSlash(to_path, <<>>)
             common == CommonPrefix(from_parts, to_parts)
             ups == Len(from_parts) - common
             remainder == SubSeq(to_parts, common + 1, Len(to_parts))
         IN  IF ups = 0 /\ Len(remainder) = Len(to_parts) THEN None
             ELSE Some(Ups(ups) \o JoinSlash(remainder))

MaxRel == 3

\* source directories: empty or ending with "/"
FromDirs == {<<>>, <<"a", "/">>, <<"a", "/", "b", "/">>, <<"..", "/">>}

RECURSIVE RelPaths(_)
\* the paths of at most n tokens
RelPaths(n) ==
    IF n = 0 THEN {<<>>}
    ELSE RelPaths(n - 1)
         \cup {Append(p, t) : p \in RelPaths(n - 1), t \in {"a", "b", "..", "/"}}

\* relative paths: no leading "/"
Rels == {p \in RelPaths(MaxRel) : p = <<>> \/ Head(p) # "/"}

InitRel ==
    /\ WriteIdle
    /\ EditIdle
    /\ CycleIdle
    /\ TripIdle
    /\ \E from \in FromDirs, rel \in Rels : fIn = [from |-> from, rel |-> rel]
    /\ fpc = "rel_start"
    /\ fMid = <<>>
    /\ fOut = <<>>

\* format!("{from}{rel}"): the path of the target inside the archive
RelJoin ==
    /\ fpc = "rel_start"
    /\ fMid' = <<fIn.from \o fIn.rel>>
    /\ fpc' = "rel_joined"
    /\ UNCHANGED <<fIn, fOut>>
    /\ UNCHANGED notCallVars

\* relative_path(from, to_path)
RelCompute ==
    /\ fpc = "rel_joined"
    /\ fOut' = relative_path(fIn.from, fMid[1])
    /\ fpc' = "rel_done"
    /\ UNCHANGED <<fIn, fMid>>
    /\ UNCHANGED notCallVars

NextRel == RelJoin \/ RelCompute

SpecRel == InitRel /\ [][NextRel]_vars

\* C15: for every source directory `from` (empty or ending with "/") and
\* every relative path `rel` with no leading "/", relative_path(from,
\* join(from, rel)) returns exactly rel.
C15_RelativeOfJoin == fpc = "rel_done" => fOut = Some(fIn.rel)

(***************************************************************************)
(* One call of build_nav_tree (src/util.rs)                                *)
(***************************************************************************)
MaxLinks == 4

LinkNames == <<"L1", "L2", "L3", "L4">>

\* the link lists of n entries with these depths, labelled L1, L2, ...
LinksOf(depths) ==
    [i \in 1..Len(depths) |->
        Link(Str(LinkNames[i]), <<LinkNames[i], ".xhtml">>, depths[i])]

RECURSIVE DepthLists(_)
DepthLists(n) ==
    IF n = 0 THEN {<<>>}
    ELSE DepthLists(n - 1) \cup {Append(d, x) : d \in DepthLists(n - 1), x \in 0..2}

InitNav ==
    /\ WriteIdle
    /\ EditIdle
    /\ CycleIdle
    /\ TripIdle
    /\ \E depths \in DepthLists(MaxLinks) : fIn = LinksOf(depths)
    /\ fpc = "nav_start"
    /\ fMid = <<>>
    /\ fOut = <<>>

\* util.rs 35-63: the loop over the links
NavLoop ==
    /\ fpc = "nav_start"
    /\ fMid' = <<NavFold(fIn, [root |-> <<>>, stack |-> <<>>])>>
    /\ fpc' = "nav_folded"
    /\ UNCHANGED <<fIn, fOut>>
    /\ UNCHANGED notCallVars

\* util.rs 65-76: the remaining stack is flushed and root returned
NavFlush ==
    /\ fpc = "nav_folded"
    /\ fOut' = NavPop(fMid[1], 0).root
    /\ fpc' = "nav_done"
    /\ UNCHANGED <<fIn, fMid>>
    /\ UNCHANGED notCallVars

NextNav == NavLoop \/ NavFlush

SpecNav == InitNav /\ [][NextNav]_vars

\* the nearest entry before i of smaller depth, 0 when there is none
ParentOf(links, i) ==
    LET c == {j \in 1..(i - 1) : links[j].depth < links[i].depth}
    IN  IF c = {} THEN 0 ELSE CHOOSE j \in c : \A m \in c : m <= j

\* the entries whose parent is p, in list order
ChildrenOf(links, p) ==
    SelectSeq([i \in 1..Len(links) |-> i], LAMBDA i : ParentOf(links, i) = p)

RECURSIVE FoldedTree(_, _)
\* the points for the entries whose parent is p, each with its own children
FoldedTree(links, p) ==
    LET kids == ChildrenOf(links, p)
    IN  [k \in 1..Len(kids) |->
            NavPoint(links[kids[k]].label, links[kids[k]].href,
                     FoldedTree(links, kids[k]))]

\* C16: build_nav_tree folds the flat list into a tree in which an entry is
\* a child of the nearest entry before it that has a smaller depth (an entry
\* deeper than the one before it is that entry's child): `Part 1` followed
\* by two indented chapters is one top-level point with two children.
C16_FoldsIntoTree == fpc = "nav_done" => fOut = FoldedTree(fIn, 0)

(***************************************************************************)
(* chapter add with an anchor (chapter_manage.rs add_chapter)              *)
(***************************************************************************)
\* the last command was `chapter add --after X` on a readable file in whose
\* spine X is neither a valid index nor an idref
UnresolvedAnchor ==
    /\ cmd.op = "chapter add"
    /\ IsSome(cmd.after)
    /\ read_epub(prev).ok
    /\ ~IsSome(find_spine_position(read_epub(prev).book, cmd.after[1]))

\* C17: chapter add with an `after` anchor that is neither a valid spine
\* index nor the idref of a spine item fails, and the manifest, spine,
\* navigation and resources of the Book, and so the file, are unchanged.
C17_UnresolvedAnchorFails == UnresolvedAnchor => (result = "err" /\ disk = prev)

(***************************************************************************)
(* One call of read_epub on an archive whose first entry varies            *)
(* (zip_utils.rs validate_mimetype, reader.rs read_epub)                   *)
(***************************************************************************)
\* names the first entry of an archive may carry
FirstNames == {MIMETYPE_NAME, <<"Mimetype">>, CONTAINER_PATH}

\* payloads of the first entry: the 20 bytes, the 20 bytes with whitespace
\* around them, other text, nothing, and bytes that are no UTF-8 text
FirstPayloads ==
    {TextData(MIMETYPE),
     TextData(MIMETYPE \o <<" ">>),
     TextData(<<" ">> \o MIMETYPE),
     TextData(<<" ">> \o MIMETYPE \o <<" ">>),
     TextData(MIMETYPE \o <<"x">>),
     TextData(<<"application/zip">>),
     TextData(<<>>),
     Bytes("png")}

\* the archive with its first entry replaced
WithFirst(file, name, data) ==
    [file EXCEPT !.entries = <<Entry(name, "Stored", data)>> \o Tail(file.entries)]

InitMime ==
    /\ WriteIdle
    /\ EditIdle
    /\ CycleIdle
    /\ TripIdle
    /\ \E file \in EditArchives, name \in FirstNames, data \in FirstPayloads :
           fIn = WithFirst(file, name, data)
    /\ fpc = "mime_start"
    /\ fMid = <<>>
    /\ fOut = <<>>

\* reader.rs 7-8: open_epub, then validate_mimetype
MimeValidate ==
    /\ fpc = "mime_start"
    /\ fMid' = <<validate_mimetype(fIn)>>
    /\ fpc' = "mime_checked"
    /\ UNCHANGED <<fIn, fOut>>
    /\ UNCHANGED notCallVars

\* reader.rs 6-52: the whole of read_epub
MimeRead ==
    /\ fpc = "mime_checked"
    /\ fOut' = read_epub(fIn)
    /\ fpc' = "mime_done"
    /\ UNCHANGED <<fIn, fMid>>
    /\ UNCHANGED notCallVars

NextMime == MimeValidate \/ MimeRead

SpecMime == InitMime /\ [][NextMime]_vars

\* the first entry is the one an EPUB must begin with
ExactMimetype(file) ==
    /\ file.entries[1].name = MIMETYPE_NAME
    /\ file.entries[1].data = TextData(MIMETYPE)

\* C18: read_epub fails and returns no Book whenever the archive's first
\* entry is not named mimetype or its payload is anything other than exactly
\* the 20 bytes application/epub+zip.
C18_RejectsInexactMimetype ==
    (fpc = "mime_done" /\ ~ExactMimetype(fIn)) => ~fOut.ok

(***************************************************************************)
(* The nav item of the manifest after read_epub -> write_epub              *)
(***************************************************************************)
\* the properties of a manifest item include nav
HasNavProperty(item) ==
    IsSome(item.properties) /\ \E i \in 1..Len(item.properties[1]) : item.properties[1][i] = "nav"

\* the items of a manifest whose properties include nav
NavItems(manifest) == {i \in 1..Len(manifest) : HasNavProperty(manifest[i])}

\* C19: after read_epub -> write_epub of an EPUB 3 that declares a navigation
\* document in its manifest, the manifest of the written OPF contains exactly
\* one item whose properties include nav.
C19_OneNavItem ==
    (cE2.ok /\ NavItems(cB1.book.manifest) # {})
        => Cardinality(NavItems(WrittenOpf(cE2.archive).manifest)) = 1

(***************************************************************************)
(* content replace (content_edit.rs replace_in_text_nodes).  A chapter is  *)
(* a sequence of tokens; "<", ">" and "\"" are single characters, every    *)
(* other token is a run of characters holding none of the three.           *)
(***************************************************************************)
\* Regex::replace_all for a literal pattern: every leftmost non-overlapping
\* occurrence of pat is replaced
RECURSIVE replace_all(_, _, _)
replace_all(s, pat, replacement) ==
    IF Len(s) < Len(pat) THEN s
    ELSE IF SubSeq(s, 1, Len(pat)) = pat
         THEN replacement \o replace_all(SubSeq(s, Len(pat) + 1, Len(s)), pat, replacement)
         ELSE <<Head(s)>> \o replace_all(Tail(s), pat, replacement)

\* content_edit.rs 210-226: the loop over the characters, from state st =
\* [result, in_tag, text_buf]
RECURSIVE ReplaceLoop(_, _, _, _)
ReplaceLoop(s, st, pat, replacement) ==
    IF s = <<>> THEN st
    ELSE LET ch == Head(s)
             nx == IF ch = "<"
                   THEN [result |-> (IF st.text_buf # <<>>
                                     THEN st.result \o replace_all(st.text_buf, pat, replacement)
                                     ELSE st.result) \o <<ch>>,
                         in_tag |-> TRUE,
                         text_buf |-> <<>>]
                   ELSE IF ch = ">"
                   THEN [st EXCEPT !.in_tag = FALSE, !.result = Append(@, ch)]
                   ELSE IF st.in_tag
                   THEN [st EXCEPT !.result = Append(@, ch)]
                   ELSE [st EXCEPT !.text_buf = Append(@, ch)]
         IN  ReplaceLoop(Tail(s), nx, pat, replacement)

\* content_edit.rs 228-232: what is left in text_buf is replaced and appended
ReplaceFlush(st, pat, replacement) ==
    IF st.text_buf # <<>> THEN st.result \o replace_all(st.text_buf, pat, replacement)
    ELSE st.result

replace_in_text_nodes(xhtml, pat, replacement) ==
    ReplaceFlush(ReplaceLoop(xhtml, [result |-> <<>>, in_tag |-> FALSE, text_buf |-> <<>>],
                             pat, replacement),
                 pat, replacement)

\* XML: the tags of a document, each from its "<" to the first ">" that is
\* outside a quoted attribute value
RECURSIVE TagEnd(_, _, _)
TagEnd(s, i, quoted) ==
    IF i > Len(s) THEN 0
    ELSE IF s[i] = "\"" THEN TagEnd(s, i + 1, ~quoted)
    ELSE IF s[i] = ">" /\ ~quoted THEN i
    ELSE TagEnd(s, i + 1, quoted)

RECURSIVE TagsFrom(_, _)
TagsFrom(s, i) ==
    IF i > Len(s) THEN <<>>
    ELSE IF s[i] = "<"
         THEN LET e == TagEnd(s, i + 1, FALSE)
              IN  IF e = 0 THEN << SubSeq(s, i, Len(s)) >>
                  ELSE << SubSeq(s, i, e) >> \o TagsFrom(s, e + 1)
         ELSE TagsFrom(s, i + 1)

TagsOf(s) == TagsFrom(s, 1)

(***************************************************************************)
(* One call of replace_in_text_nodes                                       *)
(***************************************************************************)
MaxElems == 2

\* attribute values of the opening tag; ">" is allowed in an attribute value
AttrValues == {<<"Hello">>, <<"a", ">", "b">>, <<"x", ">", "Hello">>}

OpenTags ==
    {<<"<", "p", ">">>}
    \cup {<<"<", "p title=", "\"">> \o v \o <<"\"", ">">> : v \in AttrValues}

ElemTexts == {<<"Hello">>, <<"Hello", " world">>, <<"x">>}

\* <p ...>text</p>
Elems == {o \o t \o <<"<", "/p", ">">> : o \in OpenTags, t \in ElemTexts}

RECURSIVE Chapters(_)
Chapters(n) ==
    IF n = 1 THEN Elems
    ELSE Chapters(n - 1) \cup {c \o e : c \in Chapters(n - 1), e \in Elems}

ReplacePatterns == {<<"Hello">>, <<"x">>}
Replacements == {<<"Hi">>, <<>>}

InitReplace ==
    /\ WriteIdle
    /\ EditIdle
    /\ CycleIdle
    /\ TripIdle
    /\ \E c \in Chapters(MaxElems), p \in ReplacePatterns, r \in Replacements :
           fIn = [xhtml |-> c, pattern |-> p, replacement |-> r]
    /\ fpc = "replace_start"
    /\ fMid = <<>>
    /\ fOut = <<>>

\* content_edit.rs 210-226
ReplaceScan ==
    /\ fpc = "replace_start"
    /\ fMid' = <<ReplaceLoop(fIn.xhtml, [result |-> <<>>, in_tag |-> FALSE, text_buf |-> <<>>],
                             fIn.pattern, fIn.replacement)>>
    /\ fpc' = "replace_scanned"
    /\ UNCHANGED <<fIn, fOut>>
    /\ UNCHANGED notCallVars

\* content_edit.rs 228-232
ReplaceEnd ==
    /\ fpc = "replace_scanned"
    /\ fOut' = ReplaceFlush(fMid[1], fIn.pattern, fIn.replacement)
    /\ fpc' = "replace_done"
    /\ UNCHANGED <<fIn, fMid>>
    /\ UNCHANGED notCallVars

NextReplace == ReplaceScan \/ ReplaceEnd

SpecReplace == InitReplace /\ [][NextReplace]_vars

\* C20: content replace changes only text nodes: for any well-formed XHTML
\* chapter, pattern and replacement, every tag of the chapter (element name,
\* attribute names and every attribute value) is the same before and after.
C20_TagsUnchanged == fpc = "replace_done" => TagsOf(fOut) = TagsOf(fIn.xhtml)

(***************************************************************************)
(* Two edit transactions on one path (meta_edit.rs modify_epub).  Both     *)
(* have read the archive at the path and applied their change; their       *)
(* write_epub calls run step by step in any interleaving.                  *)
(***************************************************************************)
\* the title each transaction sets
ConcTitles == {<<"A">>, <<"B">>}

\* modify_epub lines 188-189 on the archive at the path: read_epub, then
\* `metadata set --field title`
ConcBook(title) ==
    (CHOOSE m \in set_field(read_epub(OldArchive).book, <<"title">>, title) : TRUE).book

InitConc ==
    /\ wpath = <<"book", ".epub">>
    /\ worig = OldArchive
    /\ names = [n \in {wpath} |-> 1]
    /\ inodes = <<worig>>
    /\ \E t1 \in ConcTitles : \E t2 \in ConcTitles \ {t1} :
          wbook = [w \in {1, 2} |-> ConcBook(IF w = 1 THEN t1 ELSE t2)]
    /\ wplan = [w \in {1, 2} |->
                  WriteEntries(wbook[w], "u1", "t1", AnOrder(WrittenKeys(wbook[w].resources)))]
    /\ wpc = [w \in {1, 2} |-> "create"]
    /\ wfd = [w \in {1, 2} |-> 0]
    /\ wnext = [w \in {1, 2} |-> 1]
    /\ EditIdle
    /\ CycleIdle
    /\ TripIdle
    /\ CallIdle

NextConc ==
    \/ \E w \in DOMAIN wpc : CreateTmp(w) /\ UNCHANGED notWriteVars
    \/ \E w \in DOMAIN wpc : WriteEntry(w) /\ UNCHANGED notWriteVars
    \/ \E w \in DOMAIN wpc : Finish(w) /\ UNCHANGED notWriteVars
    \/ \E w \in DOMAIN wpc : Rename(w) /\ UNCHANGED notWriteVars

SpecConc == InitConc /\ [][NextConc]_vars

\* C21: when two edit transactions run concurrently on one path, under every
\* interleaving of their file-system steps the file at the path is at every
\* moment a complete archive: the original or the full output of one writer.
C21_PathAlwaysComplete ==
    FileAt(wpath) \in {worig} \cup {CompleteArchive(wplan[w]) : w \in DOMAIN wpc}

(***************************************************************************)
(* Path rewriting (html_to_md.rs preprocess_xhtml lines 159-171).  The     *)
(* document and the paths are token sequences; "NUL" is the character      *)
(* \x00 and the number of a placeholder is a token of its own.             *)
(***************************************************************************)
\* str::len of a token
ByteLen(t) ==
    CASE t = "cover.jpeg" -> 10
      [] t = "images/" -> 7
      [] t = "../assets/images/" -> 17
      [] t = "EPX_PATH_" -> 9
      [] OTHER -> 1

RECURSIVE StrLen(_)
StrLen(s) == IF s = <<>> THEN 0 ELSE ByteLen(Head(s)) + StrLen(Tail(s))

\* format!("\x00EPX_PATH_{i}\x00"), i counted from 0
PathPlaceholder(i) == <<"NUL", "EPX_PATH_", DigitTokens[i + 1], "NUL">>

\* lines 161-162: the entries of the map collected in iteration order and
\* sorted (stably) by key length, longest first
SortedEntries(path_map) ==
    {o \in Orders(DOMAIN path_map) :
        \A i \in 1..(Len(o) - 1) : StrLen(o[i]) >= StrLen(o[i + 1])}

\* lines 164-168: every key, in order, is replaced by its placeholder
RECURSIVE MarkPaths(_, _, _)
MarkPaths(html, order, i) ==
    IF i > Len(order) THEN html
    ELSE MarkPaths(replace_all(html, order[i], PathPlaceholder(i - 1)), order, i + 1)

\* lines 169-171: every placeholder, in order, is replaced by its new path
RECURSIVE FillPaths(_, _, _, _)
FillPaths(html, order, path_map, i) ==
    IF i > Len(order) THEN html
    ELSE FillPaths(replace_all(html, PathPlaceholder(i - 1), path_map[order[i]]),
                   order, path_map, i + 1)

\* the result for one iteration order of the map
rewrite_paths(html, path_map, order) ==
    FillPaths(MarkPaths(html, order, 1), order, path_map, 1)

(***************************************************************************)
(* One call of the path rewriting                                          *)
(***************************************************************************)
MaxRefs == 2

\* the paths a chapter refers to
RefPaths == {<<"cover.jpeg">>, <<"images/", "cover.jpeg">>, <<"0">>, <<"x">>}

\* <img src="path"/>
ImgRef(path) == <<"<img src=\"">> \o path \o <<"\"/>">>

RECURSIVE RefDocs(_)
RefDocs(n) ==
    IF n = 0 THEN {<<>>}
    ELSE RefDocs(n - 1) \cup {d \o ImgRef(p) : d \in RefDocs(n - 1), p \in RefPaths}

\* asset_extract.rs build_path_map: an image is mapped to
\* ../assets/images/<file name>, under its href and under relative variants
PathTarget(key) == <<"../assets/images/", key[Len(key)]>>

PathMaps ==
    {[k \in ks |-> PathTarget(k)] :
        ks \in SUBSET {<<"cover.jpeg">>, <<"images/", "cover.jpeg">>, <<"0">>}}

InitPath ==
    /\ WriteIdle
    /\ EditIdle
    /\ CycleIdle
    /\ TripIdle
    /\ \E d \in RefDocs(MaxRefs), m \in PathMaps : fIn = [xhtml |-> d, path_map |-> m]
    /\ fpc = "path_start"
    /\ fMid = <<>>
    /\ fOut = <<>>

\* lines 161-168: sort and first loop
PathMark ==
    /\ fpc = "path_start"
    /\ \E o \in SortedEntries(fIn.path_map) :
          fMid' = <<[order |-> o, html |-> MarkPaths(fIn.xhtml, o, 1)]>>
    /\ fpc' = "path_marked"
    /\ UNCHANGED <<fIn, fOut>>
    /\ UNCHANGED notCallVars

\* lines 169-171: second loop
PathFill ==
    /\ fpc = "path_marked"
    /\ fOut' = FillPaths(fMid[1].html, fMid[1].order, fIn.path_map, 1)
    /\ fpc' = "path_done"
    /\ UNCHANGED <<fIn, fMid>>
    /\ UNCHANGED notCallVars

NextPath == PathMark \/ PathFill

SpecPath == InitPath /\ [][NextPath]_vars

\* the longest key of the map that stands at the head of s, <<>> when none
LongestKeyAt(s, path_map) ==
    LET here == {k \in DOMAIN path_map : Len(k) <= Len(s) /\ SubSeq(s, 1, Len(k)) = k}
    IN  IF here = {} THEN <<>>
        ELSE CHOOSE k \in here : \A j \in here : StrLen(j) <= StrLen(k)

\* every occurrence of a key replaced once by its value, the longer key first
RECURSIVE Rewritten(_, _)
Rewritten(s, path_map) ==
    IF s = <<>> THEN <<>>
    ELSE LET k == LongestKeyAt(s, path_map)
         IN  IF k = <<>> THEN <<Head(s)>> \o Rewritten(Tail(s), path_map)
             ELSE path_map[k] \o Rewritten(SubSeq(s, Len(k) + 1, Len(s)), path_map)

\* C22: in path rewriting each occurrence of a key is replaced by exactly its
\* mapped value, a longer key winning over a key that is its substring; no
\* replacement is applied to text produced by another replacement or to a
\* pending placeholder; the result holds no NUL-bracketed placeholder.
C22_PathsRewrittenOnce ==
    fpc = "path_done" =>
        /\ fOut = Rewritten(fIn.xhtml, fIn.path_map)
        /\ \A i \in 1..Len(fOut) : fOut[i] # "NUL"

(***************************************************************************)
(* One call of xhtml_to_markdown on a chapter with a footnote              *)
(***************************************************************************)
NoteIds == {<<"fn1">>, <<"fn2">>}

\* the type attribute as the chapter writes it
TypeAttrNames == {"epub:type", "data-epub-type"}

\* <p>T<a epub:type="noteref" href="#target">1</a></p>
NoteLink(tattr, target) ==
    <<Open("p", <<>>), Text("T"),
      OpenTyped("a", tattr, "noteref", <<>>, <<"#">> \o target), Text("1"), Close("a"),
      Close("p")>>

\* <aside epub:type="footnote" id="id"><p>A footnote</p></aside>
NoteAside(tattr, id) ==
    <<OpenTyped("aside", tattr, "footnote", id, <<>>), Open("p", <<>>),
      Text("A footnote"), Close("p"), Close("aside")>>

InitNote ==
    /\ WriteIdle
    /\ EditIdle
    /\ CycleIdle
    /\ TripIdle
    /\ \E ta \in TypeAttrNames, tb \in TypeAttrNames, target \in NoteIds,
          id \in NoteIds \cup {<<>>}, first \in BOOLEAN, referenced_ids \in SUBSET NoteIds :
           fIn = [xhtml |-> IF first THEN NoteLink(ta, target) \o NoteAside(tb, id)
                            ELSE NoteAside(tb, id) \o NoteLink(ta, target),
                  referenced_ids |-> referenced_ids,
                  target |-> target,
                  aside |-> id]
    /\ fpc = "note_start"
    /\ fMid = <<>>
    /\ fOut = <<>>

\* html_to_md.rs 15
NotePreprocess ==
    /\ fpc = "note_start"
    /\ fMid' = <<preprocess_xhtml(fIn.xhtml, fIn.referenced_ids)>>
    /\ fpc' = "note_preprocessed"
    /\ UNCHANGED <<fIn, fOut>>
    /\ UNCHANGED notCallVars

\* html_to_md.rs 16
NoteConvert ==
    /\ fpc = "note_preprocessed"
    /\ fMid' = Append(fMid, convert(fMid[1]))
    /\ fpc' = "note_converted"
    /\ UNCHANGED <<fIn, fOut>>
    /\ UNCHANGED notCallVars

\* html_to_md.rs 17
NotePostprocess ==
    /\ fpc = "note_converted"
    /\ fOut' = postprocess_markdown(fMid[2])
    /\ fpc' = "note_done"
    /\ UNCHANGED <<fIn, fMid>>
    /\ UNCHANGED notCallVars

NextNote == NotePreprocess \/ NoteConvert \/ NotePostprocess

SpecNote == InitNote /\ [][NextNote]_vars

\* s holds the tokens of sub one after the other
HasTokens(s, sub) ==
    \E i \in 0..(Len(s) - Len(sub)) : SubSeq(s, i + 1, i + Len(sub)) = sub

\* the chapter holds a footnote aside with an id and a noteref link to it
NoteOfLink == fIn.aside # <<>> /\ fIn.target = fIn.aside

\* C23: for a chapter with a footnote aside (id X) and a noteref link to #X,
\* the preprocessing passes in their order turn the aside into a definition
\* [^X]: text and the link into [^X]: the aside still has its id when the
\* footnote pass runs, so the reference has a matching definition.
C23_FootnoteDefined ==
    (fpc \in {"note_preprocessed", "note_converted", "note_done"} /\ NoteOfLink) =>
        /\ HasTokens(TextOf(fMid[1]), FootnoteRef(fIn.target))
        /\ HasTokens(TextOf(fMid[1]), FootnoteDef(fIn.aside, <<"A footnote">>))

(***************************************************************************)
(* The nav document as the events quick-xml reports (writer.rs              *)
(* write_nav_ol, navigation.rs parse_nav_xhtml).  <li>, <h1> and white      *)
(* space between the tags change nothing in the parser and are left out.    *)
(***************************************************************************)
RECURSIVE write_nav_ol(_)
\* writer.rs 239-257: nothing for an empty list; else <ol>, for every point
\* <a href="escaped href">escaped label</a> and its children, </ol>
write_nav_ol(points) ==
    LET RECURSIVE Items(_)
        Items(ps) ==
            IF ps = <<>> THEN <<>>
            ELSE << [ev |-> "start", name |-> "a", href |-> xml_escape(Head(ps).href)],
                    [ev |-> "text", text |-> xml_escape(Head(ps).label)],
                    [ev |-> "end", name |-> "a"] >>
                 \o write_nav_ol(Head(ps).children)
                 \o Items(Tail(ps))
    IN  IF points = <<>> THEN <<>>
        ELSE <<[ev |-> "start", name |-> "ol"]>> \o Items(points)
             \o <<[ev |-> "end", name |-> "ol"]>>

\* writer.rs 230-233: <nav epub:type="toc">, the list, </nav>
generate_toc_xhtml(toc) ==
    <<[ev |-> "start", name |-> "nav"]>> \o write_nav_ol(toc)
    \o <<[ev |-> "end", name |-> "nav"]>>

\* navigation.rs 100-112: </ol> pops the list and hands it to the last point
\* of the list below, or extends that list when it is empty
PopOl(st) ==
    IF st.stack = <<>> THEN [st EXCEPT !.underflow = TRUE]
    ELSE LET n == Len(st.stack)
             children == st.stack[n]
             below == SubSeq(st.stack, 1, n - 1)
         IN  IF below = <<>> THEN [st EXCEPT !.stack = below]
             ELSE LET parent_list == below[n - 1]
                  IN  IF parent_list # <<>>
                      THEN [st EXCEPT !.stack =
                              [below EXCEPT ![n - 1][Len(parent_list)].children = children]]
                      ELSE [st EXCEPT !.stack = [below EXCEPT ![n - 1] = children]]

\* navigation.rs 59-117: one event
NavEvent(st, e) ==
    CASE e.ev = "start" /\ e.name = "nav" -> [st EXCEPT !.in_nav_toc = TRUE]
      [] e.ev = "start" /\ e.name = "ol" /\ st.in_nav_toc ->
            [st EXCEPT !.stack = Append(@, <<>>)]
      [] e.ev = "start" /\ e.name = "a" /\ st.in_nav_toc ->
            [st EXCEPT !.in_a = TRUE, !.current_label = <<>>, !.current_href = e.href]
      [] e.ev = "text" /\ st.in_a /\ st.in_nav_toc ->
            [st EXCEPT !.current_label = @ \o unescape_or_default(e.text)]
      [] e.ev = "end" /\ e.name = "nav" /\ st.in_nav_toc -> [st EXCEPT !.in_nav_toc = FALSE]
      [] e.ev = "end" /\ e.name = "a" /\ st.in_nav_toc ->
            IF st.stack = <<>> THEN [st EXCEPT !.in_a = FALSE]
            ELSE [st EXCEPT !.in_a = FALSE,
                            !.stack[Len(st.stack)] =
                                Append(@, NavPoint(Trim(st.current_label), st.current_href, <<>>))]
      [] e.ev = "end" /\ e.name = "ol" /\ st.in_nav_toc -> PopOl(st)
      [] OTHER -> st

RECURSIVE NavEvents(_, _)
NavEvents(st, events) ==
    IF events = <<>> THEN st ELSE NavEvents(NavEvent(st, Head(events)), Tail(events))

\* navigation.rs 52-57: the parser's state before the first event
NavStart ==
    [stack |-> << <<>> >>, in_nav_toc |-> FALSE, in_a |-> FALSE,
     current_href |-> <<>>, current_label |-> <<>>, underflow |-> FALSE]

\* navigation.rs 127-129: the first list of the stack
NavResult(st) == IF st.stack = <<>> THEN <<>> ELSE st.stack[1]

(***************************************************************************)
(* One navigation tree written and parsed                                  *)
(***************************************************************************)
MaxNavDepth == 2
MaxNavWidth == 2

\* [label, href] of a point; the second holds markup characters
PointTexts == { <<Str("One"), <<"ch1", ".xhtml">>>>,
                <<<<"Q", "&", "A">>, <<"q", "&", "a", ".xhtml">>>> }

RECURSIVE NavLists(_, _)
\* the lists of at most w points, nested at most d deep
RECURSIVE NavTrees(_)
NavLists(d, w) ==
    IF w = 0 \/ d = 0 THEN {<<>>}
    ELSE NavLists(d, w - 1)
         \cup {Append(l, NavPoint(t[1], t[2], c)) :
                 l \in {x \in NavLists(d, w - 1) : Len(x) = w - 1},
                 t \in PointTexts, c \in NavTrees(d - 1)}

NavTrees(d) == NavLists(d, MaxNavWidth)

InitToc ==
    /\ WriteIdle
    /\ EditIdle
    /\ CycleIdle
    /\ TripIdle
    /\ fIn \in NavTrees(MaxNavDepth)
    /\ fpc = "toc_start"
    /\ fMid = <<>>
    /\ fOut = <<>>

\* writer.rs generate_toc_xhtml
TocWrite ==
    /\ fpc = "toc_start"
    /\ fMid' = <<generate_toc_xhtml(fIn)>>
    /\ fpc' = "toc_written"
    /\ UNCHANGED <<fIn, fOut>>
    /\ UNCHANGED notCallVars

\* navigation.rs parse_nav_xhtml
TocParse ==
    /\ fpc = "toc_written"
    /\ fOut' = NavEvents(NavStart, fMid[1])
    /\ fpc' = "toc_done"
    /\ UNCHANGED <<fIn, fMid>>
    /\ UNCHANGED notCallVars

NextToc == TocWrite \/ TocParse

SpecToc == InitToc /\ [][NextToc]_vars

\* C24: for every navigation tree, parsing the nav XHTML that the writer
\* emits for it returns a tree equal to the original in labels, hrefs,
\* sibling order and nesting; the <ol> stack never underflows and ends with
\* exactly the top-level list.
C24_NavRoundTrip ==
    fpc = "toc_done" =>
        /\ NavResult(fOut) = fIn
        /\ ~fOut.underflow
        /\ Len(fOut.stack) = 1

(***************************************************************************)
(* content headings --restructure (content_edit.rs restructure_headings).  *)
(* A chapter is the sequence of the levels of its headings: the opening    *)
(* and the closing tag of a heading are renamed together.                  *)
(***************************************************************************)
MaxLevel == 3
MaxHeadings == 2

HeadingLevels == 1..MaxLevel

\* lines 163-174: the mapping as a HashMap from level to level
LevelMaps == UNION {[froms -> HeadingLevels] : froms \in SUBSET HeadingLevels}

RECURSIVE HeadingDocs(_)
HeadingDocs(n) ==
    IF n = 0 THEN {<<>>}
    ELSE HeadingDocs(n - 1) \cup {Append(d, l) : d \in HeadingDocs(n - 1), l \in HeadingLevels}

\* lines 187-194: one entry of the map applied to the chapter as it stands
RemapLevel(st, from, to) ==
    [modified |-> [i \in 1..Len(st.modified) |->
                      IF st.modified[i] = from THEN to ELSE st.modified[i]],
     total |-> st.total + Cardinality({i \in 1..Len(st.modified) : st.modified[i] = from}),
     left |-> st.left \ {from}]

InitHead ==
    /\ WriteIdle
    /\ EditIdle
    /\ CycleIdle
    /\ TripIdle
    /\ \E d \in HeadingDocs(MaxHeadings), m \in LevelMaps :
           /\ fIn = [xhtml |-> d, level_map |-> m]
           /\ fMid = <<[modified |-> d, total |-> 0, left |-> DOMAIN m]>>
    /\ fpc = "head_loop"
    /\ fOut = <<>>

\* line 187: `for (&from, &to) in &level_map` yields the entries in the
\* iteration order of the HashMap: any entry not yet taken may be the next
HeadStep ==
    /\ fpc = "head_loop"
    /\ \E from \in fMid[1].left :
          fMid' = <<RemapLevel(fMid[1], from, fIn.level_map[from])>>
    /\ UNCHANGED <<fIn, fpc, fOut>>
    /\ UNCHANGED notCallVars

\* lines 196-201: the chapter is stored and the count returned
HeadEnd ==
    /\ fpc = "head_loop"
    /\ fMid[1].left = {}
    /\ fOut' = [content |-> fMid[1].modified, total |-> fMid[1].total]
    /\ fpc' = "head_done"
    /\ UNCHANGED <<fIn, fMid>>
    /\ UNCHANGED notCallVars

NextHead == HeadStep \/ HeadEnd

SpecHead == InitHead /\ [][NextHead]_vars

\* the level a heading of level n is mapped to
MapLevel(m, n) == IF n \in DOMAIN m THEN m[n] ELSE n

\* C25: restructure_headings applies its mapping simultaneously: every heading
\* originally at level N ends at level map(N), unmapped levels unchanged, no
\* heading is remapped twice, and content and count are the same on every run.
C25_SimultaneousMapping ==
    fpc = "head_done" =>
        /\ fOut.content = [i \in 1..Len(fIn.xhtml) |-> MapLevel(fIn.level_map, fIn.xhtml[i])]
        /\ fOut.total = Cardinality({i \in 1..Len(fIn.xhtml) : fIn.xhtml[i] \in DOMAIN fIn.level_map})

(***************************************************************************)
(* chapter reorder and spine reorder (chapter_manage.rs reorder_chapter,   *)
(* toc_edit.rs reorder_spine)                                              *)
(***************************************************************************)
\* the item at `from` of a is at `to` of b; the other items keep their order
MovedTo(a, b, from, to) ==
    /\ Len(b) = Len(a)
    /\ b[to + 1] = a[from + 1]
    /\ RemoveAt(b, to + 1) = RemoveAt(a, from + 1)

\* C26: reorder(from, to) with both indices inside the spine moves the item
\* at from to index to, keeps the spine length and the relative order of all
\* other items, and leaves manifest, navigation, metadata and resources
\* unchanged; with either index out of range it fails and the spine is
\* unchanged.
C26_ReorderMovesOne ==
    (cmd.op \in {"chapter reorder", "spine reorder"} /\ read_epub(prev).ok) =>
        LET b == read_epub(prev).book
        IN  IF cmd.from < Len(b.spine) /\ cmd.to < Len(b.spine)
            THEN /\ IsSome(edited)
                 /\ MovedTo(b.spine, edited[1].spine, cmd.from, cmd.to)
                 /\ edited[1].manifest = b.manifest
                 /\ edited[1].navigation = b.navigation
                 /\ edited[1].metadata = b.metadata
                 /\ edited[1].resources = b.resources
            ELSE result = "err" /\ ~IsSome(edited) /\ disk = prev

\* a chapter of a spine of three moved from the front to the back
C26_Witness ==
    /\ cmd.op \in {"chapter reorder", "spine reorder"}
    /\ cmd.from = 0 /\ cmd.to = 2
    /\ IsSome(edited)
    /\ Len(edited[1].spine) = 3
    /\ result = "ok"

(***************************************************************************)
(* One call of remove_chapter on a Book read from an archive               *)
(***************************************************************************)
\* tables of contents of the archive: flat, with a link to a section of the
\* first chapter, and with such links nested
RemoveTocs ==
    { << NavPoint(Str("One"), CH1, <<>>), NavPoint(Str("Two"), CH2, <<>>) >>,
      << NavPoint(Str("One"), CH1, << NavPoint(Str("Sec"), CH1 \o <<"#", "s2">>, <<>>) >>),
         NavPoint(Str("Two"), CH2, <<>>) >>,
      << NavPoint(Str("One"), CH1, <<>>),
         NavPoint(Str("Sec"), CH1 \o <<"#", "s2">>, <<>>),
         NavPoint(Str("Two"), CH2, <<>>) >>,
      << NavPoint(Str("Two"), CH2, << NavPoint(Str("See"), CH1, <<>>),
                                      NavPoint(Str("Sec"), CH1 \o <<"#", "s2">>, <<>>) >>) >> }

\* an EPUB 3 with two chapters under dir and the given table of contents
RemoveArchive(dir, toc) ==
    Archive(dir \o <<"content", ".opf">>,
            RawDoc(<<"3.0">>, <<Str("urn:uuid:1")>>, <<Str("T")>>, <<Str("en")>>, <<>>,
                   << ManifestItem(Str("nav"), <<"nav", ".xhtml">>, XHTML_MT, Some(NAV_PROP)),
                      ManifestItem(Str("ch1"), CH1, XHTML_MT, None),
                      ManifestItem(Str("ch2"), CH2, XHTML_MT, None) >>,
                   << SpineItem(Str("ch1"), TRUE, None), SpineItem(Str("ch2"), TRUE, None) >>),
            << Entry(dir \o <<"nav", ".xhtml">>, "Deflated", NavDoc(toc)),
               Entry(dir \o CH1, "Deflated", H1),
               Entry(dir \o CH2, "Deflated", H2) >>)

InitRemove ==
    /\ WriteIdle
    /\ EditIdle
    /\ CycleIdle
    /\ TripIdle
    /\ \E dir \in {OEBPS, <<>>}, toc \in RemoveTocs, id \in ChapterRefs :
           fIn = [book |-> read_epub(RemoveArchive(dir, toc)).book, id_or_index |-> id]
    /\ fpc = "remove_start"
    /\ fMid = <<>>
    /\ fOut = <<>>

\* chapter_manage.rs 90: resolve_chapter
RemoveResolve ==
    /\ fpc = "remove_start"
    /\ fMid' = <<resolve_chapter(fIn.book, fIn.id_or_index)>>
    /\ fpc' = "remove_resolved"
    /\ UNCHANGED <<fIn, fOut>>
    /\ UNCHANGED notCallVars

\* chapter_manage.rs 89-115: the whole of remove_chapter
RemoveCall ==
    /\ fpc = "remove_resolved"
    /\ fOut' \in remove_chapter(fIn.book, fIn.id_or_index)
    /\ fpc' = "remove_done"
    /\ UNCHANGED <<fIn, fMid>>
    /\ UNCHANGED notCallVars

NextRemove == RemoveResolve \/ RemoveCall

SpecRemove == InitRemove /\ [][NextRemove]_vars

\* href is H or H followed by a fragment
PointsAt(href, H) ==
    href = H \/ (Len(href) > Len(H) /\ SubSeq(href, 1, Len(H) + 1) = H \o <<"#">>)

RECURSIVE TocPointsAt(_, _)
\* some entry of the table of contents, at any depth, points at H
TocPointsAt(toc, H) ==
    \E i \in 1..Len(toc) : PointsAt(toc[i].href, H) \/ TocPointsAt(toc[i].children, H)

\* C27: after remove_chapter succeeds for a chapter with idref I and href H,
\* the Book holds no spine item with idref I, no manifest item with id I, no
\* resource stored for H, and no table-of-contents entry at any depth whose
\* href is H or H followed by a fragment.
C27_ChapterGone ==
    (fpc = "remove_done" /\ fOut.ok) =>
        LET I == fMid[1][1][2]
            H == fIn.book.manifest[FirstIndex(fIn.book.manifest, LAMBDA m : m.id = I)].href
        IN  /\ \A i \in 1..Len(fOut.book.spine) : fOut.book.spine[i].idref # I
            /\ \A i \in 1..Len(fOut.book.manifest) : fOut.book.manifest[i].id # I
            /\ \A k \in DOMAIN fOut.book.resources : ~EndsWith(k, H)
            /\ ~TocPointsAt(fOut.book.navigation.toc, H)

(***************************************************************************)
(* The table of contents of an assembled Book                              *)
(***************************************************************************)
RECURSIVE TocHrefs(_)
\* the hrefs of the entries of a table of contents, at every depth
TocHrefs(toc) ==
    UNION {{toc[i].href} \cup TocHrefs(toc[i].children) : i \in 1..Len(toc)}

\* every entry of the Book's table of contents points, fragment aside, at the
\* href of a manifest item
TocInManifest(book) ==
    \A h \in TocHrefs(book.navigation.toc) :
        \E j \in 1..Len(book.manifest) : book.manifest[j].href = BeforeFragment(h)

\* C28: in a Book produced by assemble_book, every table-of-contents entry's
\* href (ignoring any fragment) equals the href of a manifest item: the
\* navigation points at the generated <stem>.xhtml documents of the spine,
\* not at the source chapters/*.md files.
C28_TocPointsAtManifest ==
    tpc \in {"assembled", "done"} =>
        \A b \in assemble_book(tree[1]) : b.ok => TocInManifest(b.book)

(***************************************************************************)
(* spine set (toc_edit.rs set_spine_order)                                 *)
(***************************************************************************)
\* how many items of s equal x
CountIn(s, x) == Cardinality({i \in 1..Len(s) : s[i] = x})

\* a and b hold the same items, each as many times
Permutation(a, b) ==
    /\ Len(a) = Len(b)
    /\ \A i \in 1..Len(a) : CountIn(b, a[i]) = CountIn(a, a[i])

\* C29: a successful spine set yields a permutation of the previous spine:
\* every spine item present before is present exactly once afterwards, with
\* its linear flag and properties unchanged, in the order of the idref list.
C29_SpineSetPermutes ==
    (cmd.op = "spine set" /\ result = "ok" /\ read_epub(prev).ok) =>
        /\ Permutation(read_epub(prev).book.spine, edited[1].spine)
        /\ [i \in 1..Len(edited[1].spine) |-> edited[1].spine[i].idref] = cmd.idrefs

(***************************************************************************)
(* The count returned by content replace (content_edit.rs replace and      *)
(* count_matches), on chapters of single characters and runs of characters *)
(***************************************************************************)
RECURSIVE StripTagChars(_)
\* util.rs strip_html_tags, the regex <[^>]+> replaced by nothing: a "<", at
\* least one character that is not ">", and the next ">"
StripTagChars(s) ==
    IF s = <<>> THEN <<>>
    ELSE IF Head(s) = "<" /\ Len(s) >= 3 /\ s[2] # ">" /\ IndexFrom(s, 3, ">") # 0
         THEN StripTagChars(SubSeq(s, IndexFrom(s, 3, ">") + 1, Len(s)))
         ELSE <<Head(s)>> \o StripTagChars(Tail(s))

RECURSIVE CountMatches(_, _)
\* Regex::find_iter(..).count() for a literal pattern
CountMatches(s, pat) ==
    IF Len(s) < Len(pat) THEN 0
    ELSE IF SubSeq(s, 1, Len(pat)) = pat
         THEN 1 + CountMatches(SubSeq(s, Len(pat) + 1, Len(s)), pat)
         ELSE CountMatches(Tail(s), pat)

\* content_edit.rs 235-238
count_matches(xhtml, pat) == CountMatches(Trim(StripTagChars(xhtml)), pat)

RECURSIVE TextNodes(_, _, _)
\* XML: the text nodes of a document, the runs of characters between its tags
TextNodes(s, i, node) ==
    LET flush == IF node = <<>> THEN <<>> ELSE <<node>>
    IN  IF i > Len(s) THEN flush
        ELSE IF s[i] = "<"
             THEN LET e == TagEnd(s, i + 1, FALSE)
                  IN  IF e = 0 THEN flush
                      ELSE flush \o TextNodes(s, e + 1, <<>>)
             ELSE TextNodes(s, i + 1, Append(node, s[i]))

RECURSIVE SumMatches(_, _)
\* the occurrences of pat inside the text nodes
SumMatches(nodes, pat) ==
    IF nodes = <<>> THEN 0
    ELSE CountMatches(Head(nodes), pat) + SumMatches(Tail(nodes), pat)

\* the elements of a chapter: the word Hello in one text node, split by an
\* inline element, after a paragraph of white space, absent, and with part
\* of it in an attribute value
CountElems ==
    { <<"<", "p", ">", "Hel", "lo", "<", "/p", ">">>,
      <<"<", "p", ">", "Hel", "<", "b", ">", "lo", "<", "/b", ">", "<", "/p", ">">>,
      <<"<", "p", ">", " ", "<", "/p", ">">>,
      <<"<", "p", ">", "x", "<", "/p", ">">>,
      <<"<", "p title=", "\"", "lo", "\"", ">", "Hel", "lo", " ", "x", "<", "/p", ">">> }

CountChapters == CountElems \cup {a \o b : a \in CountElems, b \in CountElems}

CountPatterns == {<<"Hel", "lo">>, <<"lo">>, <<" ">>}

InitCount ==
    /\ WriteIdle
    /\ EditIdle
    /\ CycleIdle
    /\ TripIdle
    /\ \E c \in CountChapters, p \in CountPatterns, r \in Replacements :
           fIn = [xhtml |-> c, pattern |-> p, replacement |-> r]
    /\ fpc = "count_start"
    /\ fMid = <<>>
    /\ fOut = <<>>

\* content_edit.rs 121: the chapter's new content
CountReplace ==
    /\ fpc = "count_start"
    /\ fMid' = <<replace_in_text_nodes(fIn.xhtml, fIn.pattern, fIn.replacement)>>
    /\ fpc' = "count_replaced"
    /\ UNCHANGED <<fIn, fOut>>
    /\ UNCHANGED notCallVars

\* content_edit.rs 122-127: the count is taken and the content stored
CountTotal ==
    /\ fpc = "count_replaced"
    /\ fOut' = [content |-> fMid[1], total |-> count_matches(fIn.xhtml, fIn.pattern)]
    /\ fpc' = "count_done"
    /\ UNCHANGED <<fIn, fMid>>
    /\ UNCHANGED notCallVars

NextCount == CountReplace \/ CountTotal

SpecCount == InitCount /\ [][NextCount]_vars

\* C30: the number returned by content replace equals the number of pattern
\* occurrences substituted inside the text nodes of the chapter; it is 0
\* exactly when the content does not change.
C30_CountIsSubstitutions ==
    fpc = "count_done" =>
        /\ fOut.total = SumMatches(TextNodes(fIn.xhtml, 1, <<>>), fIn.pattern)
        /\ (fOut.total = 0) <=> (fOut.content = fIn.xhtml)

====
